---- MODULE Spec2Model ----
(***************************************************************************)
(* Model of the S2TS pipeline's GUI automation core                        *)
(* (src/s2ts_pipeline/utils/gui_automation.py): reply extraction, the      *)
(* response-stabilization loop and send_and_get.                           *)
(*                                                                         *)
(* Text is a sequence of tokens. A token is a whitespace character (" " or *)
(* "\n") or a fixed run of non-whitespace characters ("a", "copy",         *)
(* "Input:"); str operations (strip, splitlines, lower, rfind, slicing,    *)
(* join) are computed on these sequences as CPython computes them on       *)
(* characters.                                                             *)
(*                                                                         *)
(* Time is time.time() in whole seconds. time.sleep(d) suspends for d      *)
(* seconds; the sub-second sleeps and GUI calls of one page capture take a *)
(* nondeterministic 0..MaxPollLag seconds.                                 *)
(***************************************************************************)
EXTENDS Integers, Sequences, FiniteSets, TLC

VARIABLES
    pc,               \* position of the send_and_get call
    now,              \* time.time()
    composed_prompt,  \* send_and_get: composed_prompt
    sent_at,          \* send_and_get: sent_at
    timeout,          \* _monitor_for_response: parameter timeout
    start,            \* _monitor_for_response: start
    last_digest,      \* _monitor_for_response: last_digest
    stable_count,     \* _monitor_for_response: stable_count
    best_seen,        \* _monitor_for_response: best_seen
    last_update_time, \* _monitor_for_response: last_update_time
    page_text,        \* _monitor_for_response: page_text of the latest poll
    current_reply,    \* _monitor_for_response: current_reply of the latest poll
    poll_time,        \* time.time() when the latest poll's reply was examined
    best_response,    \* send_and_get: best_response (the value returned)
    outcome,          \* which return of _monitor_for_response was taken
    observed,         \* history: the non-empty candidates polled in this run
    request,          \* send_and_get: the arguments (prompt, text, target_lang)
    script,           \* the scripted replies of the surface (<<>>: unscripted)
    script_pos,       \* polls taken from the script so far
    raw_text,         \* _extract_reply applied alone: whole_page_text
    sent_blob,        \* _extract_reply applied alone: sent_text
    extracted,        \* _extract_reply applied alone: the value returned
    extracted_twice,  \* _extract_reply applied to that value and sent_text
    handle,           \* RobustGuiEngine._browser_process
    launch,           \* what subprocess.Popen did in start()
    clipboard,        \* the system clipboard (pyperclip.copy / pyperclip.paste)
    raised,           \* the exception propagating out of the latest call
    original,         \* history: the exception raised in send_and_get's try body
    result,           \* the value send_and_get returned to its caller
    stop_calls,       \* history: calls of stop()
    terminate_calls,  \* history: calls of _browser_process.terminate()
    kill_calls,       \* history: calls of _browser_process.kill()
    click_copied,     \* latest poll: what the copy-button click did
    fallback_ran,     \* latest poll: the select-all + copy fallback was entered
    capture_fault,    \* latest poll: the capture step that raised
    calls,            \* history: the engine methods the stage function called
    sends,            \* history: messages submitted with the confirm key
    start_time,       \* clean_text_gui / translate_text: start_time
    stage_return,     \* the pair the stage function returned
    previous_candidate, \* history: the latest non-empty candidate polled
    identical_polls,  \* history: non-empty polls in a row equal to the latest
    events,           \* history: the steps of send_and_get, up to the first capture
    is_running,       \* S2TSPipeline.is_running
    at,               \* run_full_pipeline: position of each invocation
    req,              \* run_full_pipeline: the arguments of each invocation
    asr_output,       \* run_full_pipeline: asr_output
    cleaned_text,     \* run_full_pipeline: cleaned_text
    lang_index,       \* run_full_pipeline: languages translated so far
    translations,     \* run_full_pipeline: translations, (lang, text) in order
    tts_outputs,      \* run_full_pipeline: tts_outputs, (key, text spoken) in order
    clean_outcome,    \* history: the return of the monitor in the clean stage
    translate_calls,  \* history: the calls of translate_text, (lang, text)
    stop_event,       \* ResourceMonitor._stop_event is set
    monitor_thread,   \* ResourceMonitor._monitor_thread: a thread, or 0 for None
    thread_pc,        \* position of each thread in _monitor_loop
    wake_in,          \* seconds left of each thread's time.sleep(interval)
    caller,           \* the caller of start_monitoring / stop_monitoring
    join_left,        \* seconds left of the join in stop_monitoring
    last_call,        \* history: the ResourceMonitor method that returned last
    stages,           \* StageProgress.stages: stage name -> progress and status
    cache,            \* StateManager.state['cache']: key -> result cached
    state_file,       \* the cache as last written to pipeline_state.json
    cached,           \* history: (stage, key) -> the result last cached for it
    asr_pc,           \* run_asr: position from the wait loop on
    poll_i,           \* run_asr: polls of the wait loop taken so far
    asr_waited,       \* run_asr: seconds slept in the wait loop
    show_found,       \* run_asr: show_btn and show_btn.exists() after the loop
    asr_clip,         \* run_asr: what pyperclip.paste() returned, if called
    asr_dir,          \* run_asr: ASR_OUTPUT_DIR as the fallback found it
    asr_source,       \* run_asr: where text was taken from
    asr_text          \* run_asr: text

stabVars == <<pc, now, composed_prompt, sent_at, timeout, start, last_digest,
              stable_count, best_seen, last_update_time, page_text,
              current_reply, poll_time, best_response, outcome, observed,
              request, script, script_pos>>

extractVars == <<raw_text, sent_blob, extracted, extracted_twice>>

sessVars == <<handle, launch, clipboard, raised, original, result, stop_calls,
              terminate_calls, kill_calls, click_copied, fallback_ran,
              capture_fault>>

pipeVars == <<is_running, at, req, asr_output, cleaned_text, lang_index,
              translations, tts_outputs, clean_outcome, translate_calls>>

stageVars == <<calls, sends, start_time, stage_return>>

runVars == <<previous_candidate, identical_polls>>

monVars == <<stop_event, monitor_thread, thread_pc, wake_in, caller,
             join_left, last_call>>

\* the state of the session, stage functions and pipeline
coreVars == <<stabVars, extractVars, sessVars, stageVars, runVars, events,
              pipeVars>>

\* the state of the utilities of utils/ and of run_asr's wait
cacheVars == <<cache, state_file, cached>>

asrVars == <<asr_pc, poll_i, asr_waited, show_found, asr_clip, asr_dir,
             asr_source, asr_text>>

utilVars == <<monVars, stages, cacheVars, asrVars>>

vars == <<coreVars, utilVars>>

----------------------------------------------------------------------------
(* Bounds of the model *)

\* time.time() when send_and_get is entered, on an unscripted surface. The
\* loop of _monitor_for_response runs for sent_at seconds, so the clock sets
\* how many polls of an arbitrary surface are explored.
ClockAtStart == 30

\* time.time() when send_and_get is entered, on a scripted surface: a clock
\* later than RESPONSE_TIMEOUT, as the Unix time of any real clock is
LateClock == 200

\* time.time() when a stage function is entered: the loop of
\* _monitor_for_response then runs for SessionClock + 17 seconds, long enough
\* for a reply to be accepted and short enough for the deadline to be met
SessionClock == 7

\* invocations of run_full_pipeline followed
MaxInvocations == 2

\* calls of start() and stop() made on one engine
MaxEngineCalls == 5

\* threads a ResourceMonitor creates
MaxThreads == 3

\* start_monitoring(interval=5): time.sleep(interval) in _monitor_loop
MonitorInterval == 5

\* self._monitor_thread.join(timeout=2.0)
JoinTimeout == 2

\* for i in range(3600)
MaxPolls == 3600

\* time.sleep(2) at the end of an iteration of run_asr's wait loop
PollSleep == 2

\* the longest a single page capture takes, in seconds
MaxPollLag == 1

\* pieces a raw text is built from when _extract_reply is applied alone
MaxPieces == 4

----------------------------------------------------------------------------
(* config.py *)

PAGE_READY_DELAY == 10

RESPONSE_TIMEOUT == 180

MIN_STREAM_TIME == 6

STABLE_ROUNDS == 3

(* literals of gui_automation.py *)

\* send_and_get: self._sleep(2), self._sleep(5) before sent_at is taken
PasteDelay == 2

ConfirmDelay == 5

\* send_and_get: self._sleep(10) after sent_at
PostSendDelay == 10

\* _monitor_for_response: self._sleep(8)
WarmupDelay == 8

\* _monitor_for_response: self._sleep(2) after an empty reply
EmptyPollDelay == 2

\* _monitor_for_response: self._sleep(3) after a reply that is not accepted
SampleDelay == 3

\* stop: self._browser_process.wait(timeout=5)
WaitTimeout == 5

\* _monitor_for_response: stable_count >= 3
StableThreshold == 3

\* _monitor_for_response: time.time() - last_update_time > 10
StaleDuration == 10

\* Python's None where a text or a digest is expected: no text of the model
None == <<"None">>

\* no return has been taken
Running == "Running"

\* self._browser_process is None
NoProcess == "NoProcess"

\* no exception
NoError == "NoError"

----------------------------------------------------------------------------
(* str operations *)

IsSpace(c) == c \in {" ", "\n"}

RECURSIVE LStrip(_)
LStrip(s) ==
    IF s # <<>> /\ IsSpace(Head(s)) THEN LStrip(Tail(s)) ELSE s

RECURSIVE RStrip(_)
RStrip(s) ==
    IF s # <<>> /\ IsSpace(s[Len(s)]) THEN RStrip(SubSeq(s, 1, Len(s) - 1)) ELSE s

\* str.strip()
Strip(s) == RStrip(LStrip(s))

RECURSIVE SplitAcc(_, _, _)
SplitAcc(s, cur, acc) ==
    IF s = <<>> THEN (IF cur = <<>> THEN acc ELSE Append(acc, cur))
    ELSE IF Head(s) = "\n" THEN SplitAcc(Tail(s), <<>>, Append(acc, cur))
    ELSE SplitAcc(Tail(s), Append(cur, Head(s)), acc)

\* str.splitlines(): no trailing empty line, "" gives []
SplitLines(s) == SplitAcc(s, <<>>, <<>>)

LowerTok(c) ==
    CASE c = "Copy" -> "copy"
      [] c = "Send" -> "send"
      [] c = "Share" -> "share"
      [] c = "P" -> "p"
      [] c = "T" -> "t"
      [] OTHER -> c

\* str.lower()
Lower(s) == [i \in 1..Len(s) |-> LowerTok(s[i])]

RECURSIVE Join(_)
\* "\n".join(lines)
Join(lines) ==
    IF lines = <<>> THEN <<>>
    ELSE IF Len(lines) = 1 THEN lines[1]
    ELSE lines[1] \o <<"\n">> \o Join(Tail(lines))

RECURSIVE RFindFrom(_, _, _)
RFindFrom(s, sub, i) ==
    IF i < 0 THEN -1
    ELSE IF SubSeq(s, i + 1, i + Len(sub)) = sub THEN i
    ELSE RFindFrom(s, sub, i - 1)

RECURSIVE FindFrom(_, _, _)
FindFrom(s, sub, i) ==
    IF i > Len(s) - Len(sub) THEN -1
    ELSE IF SubSeq(s, i + 1, i + Len(sub)) = sub THEN i
    ELSE FindFrom(s, sub, i + 1)

\* a search that stops at the first occurrence (str.find)
FindFirst(s, sub) == FindFrom(s, sub, 0)

\* str.rfind(sub): 0-based index of the last occurrence, -1 when none
RFind(s, sub) == RFindFrom(s, sub, Len(s) - Len(sub))

----------------------------------------------------------------------------
(* RobustGuiEngine._extract_reply *)

noise == { <<"copy">>, <<"regenerate">>, <<"send", " ", "message">>,
           <<"stop", " ", "generating">> }

IsNoiseLine(line) == Lower(Strip(line)) \in noise

RECURSIVE FilterLines(_)
\* [line.strip() for line in ... if line.strip() and line.strip().lower() not in noise]
FilterLines(lines) ==
    IF lines = <<>> THEN <<>>
    ELSE LET line == Strip(Head(lines))
         IN  IF line # <<>> /\ ~IsNoiseLine(line)
             THEN <<line>> \o FilterLines(Tail(lines))
             ELSE FilterLines(Tail(lines))

\* the text after the last occurrence of sent_text, or the whole page
ReplyRegion(whole_page_text, sent_text) ==
    LET index == RFind(whole_page_text, sent_text)
    IN  IF index # -1
        THEN Strip(SubSeq(whole_page_text, index + Len(sent_text) + 1,
                          Len(whole_page_text)))
        ELSE whole_page_text

\* a filter that also drops the leading line kept
NoiseFilterDropsLeadingLine(reply_text) ==
    LET kept == FilterLines(SplitLines(reply_text))
    IN  IF kept = <<>> THEN <<>> ELSE Strip(Join(Tail(kept)))

\* "\n".join(lines).strip() of the lines kept
NoiseFilter(reply_text) == Strip(Join(FilterLines(SplitLines(reply_text))))

\* an extraction that returns the page as captured
ExtractReplyWholePage(whole_page_text, sent_text) == whole_page_text

ExtractReply(whole_page_text, sent_text) ==
    IF whole_page_text = <<>> \/ sent_text = <<>> THEN <<>>
    ELSE NoiseFilter(ReplyRegion(whole_page_text, sent_text))

----------------------------------------------------------------------------
(* RobustGuiEngine._compose_prompt *)

ComposePrompt(prompt, text, target_lang) ==
    Strip(prompt)
    \o (IF target_lang # <<>>
        THEN <<"\n", "\n", "Target", " ", "language:", " ">> \o target_lang
        ELSE <<>>)
    \o <<"\n", "\n", "Input:", "\n">> \o Strip(text)

\* a copy that trims the message first
ClipboardAfterCopyTrimmed(composed) == Strip(composed)

\* pyperclip.copy(composed_prompt): the text the clipboard holds afterwards
ClipboardAfterCopy(composed) == composed

Range(seq) == { seq[k] : k \in 1..Len(seq) }

\* the sending steps with the confirm key pressed before the paste
SendStepsEnterFirst(fault) ==
    CASE fault = "copy" -> <<>>
      [] fault = "hotkey" -> <<"copy">>
      [] fault = "press" -> <<"copy", "paste">>
      [] OTHER -> <<"copy", "enter", "paste">>

\* the steps of send_and_get that returned, when the step `fault` raises:
\* pyperclip.copy, pyautogui.hotkey('ctrl', 'v'), pyautogui.press('enter')
SendSteps(fault) ==
    CASE fault = "copy" -> <<>>
      [] fault = "hotkey" -> <<"copy">>
      [] fault = "press" -> <<"copy", "paste">>
      [] OTHER -> <<"copy", "paste", "enter">>

----------------------------------------------------------------------------
(* The surface: what one page capture can put on the clipboard *)

Ab == <<"a", "b">>

Hi == <<"h", "i">>

Hello == <<"h", "e", "l", "l", "o">>

\* the page shows the echoed message followed by reply r (r = <<>>: the echo
\* alone, which is also what the clipboard holds when nothing was copied)
EchoThen(sent, r) ==
    IF r = <<>> THEN Strip(sent) ELSE Strip(sent \o <<"\n">> \o r)

Pages(sent) ==
    { <<>>,
      EchoThen(sent, <<>>),
      EchoThen(sent, Ab),
      EchoThen(sent, Hi),
      EchoThen(sent, Hello),
      EchoThen(sent, Hello \o <<"\n", "Copy">>),
      EchoThen(sent, Hi \o <<"\n">> \o sent \o <<"\n">> \o Ab),
      Hi \o <<"\n", "\n">> \o Ab }

\* scripted surfaces: the replies shown at successive polls, in a cycle
EmptyThenAb == << <<>>, Ab, Ab, Ab, Ab >>

HelloThenHi == << Hello, Hi >>

\* only the echoed message, at every poll
EchoOnly == << <<>> >>

AlwaysChanging == << Ab, Hi >>

\* the calls of send_and_get: (prompt, text, target_lang), target_lang empty
\* when none is given
CleanRequest == << <<"P">>, <<"T">>, <<>> >>

TranslateRequest == << <<" ", "P", "\n">>, <<"T", " ">>, <<"Hindi">> >>

\* the prompt file is empty
EmptyPromptRequest == << <<>>, <<"T">>, <<>> >>

\* the runs explored: (script, request, clock at entry)
Scenarios ==
    { << <<>>, CleanRequest, ClockAtStart >>,
      << EmptyThenAb, TranslateRequest, ClockAtStart >>,
      << HelloThenHi, CleanRequest, ClockAtStart >>,
      << EchoOnly, CleanRequest, LateClock >>,
      << EchoOnly, EmptyPromptRequest, ClockAtStart >>,
      << AlwaysChanging, TranslateRequest, LateClock >> }

Composed == { ComposePrompt(sc[2][1], sc[2][2], sc[2][3]) : sc \in Scenarios }

\* _extract_reply on every page of every run
ReplyTable ==
    [sent \in Composed |->
        [page \in Pages(sent) |-> ExtractReply(page, sent)]]

----------------------------------------------------------------------------
(* time *)

\* a sleep that returns at once
AfterSleepSkipped(t, duration) == t

\* time.time() after self._sleep(duration) entered at time t
AfterSleep(t, duration) == t + duration

----------------------------------------------------------------------------
(* RobustGuiEngine._monitor_for_response *)

\* hashlib.md5(current_reply.encode()).hexdigest(), taken as collision-free
Digest(reply) == <<"md5", reply>>

\* while time.time() - start < timeout
LoopRuns(t, started, limit) == t - started < limit

\* a test that lets the empty reply through
IsNoContentNever(reply) == FALSE

\* if not current_reply
IsNoContent(reply) == reply = <<>>

\* best_seen tracking the latest reply
UpdateBestSeenLatest(reply, best) == reply

\* best_seen keeping the first reply
UpdateBestSeenFirst(reply, best) ==
    IF best = <<>> THEN reply ELSE best

\* best_seen replaced by a reply of the same length
UpdateBestSeenOrEqual(reply, best) ==
    IF Len(reply) >= Len(best) THEN reply ELSE best

\* best_seen = current_reply if len(current_reply) > len(best_seen) else best_seen
UpdateBestSeen(reply, best) ==
    IF Len(reply) > Len(best) THEN reply ELSE best

\* a counter that is never reset
NextStableCountNoReset(digest, last, count) ==
    IF digest = last THEN count + 1 ELSE count

\* if current_digest == last_digest: stable_count += 1  else: stable_count = 0
NextStableCount(digest, last, count) ==
    IF digest = last THEN count + 1 ELSE 0

\* the time of the last change is not refreshed
NextUpdateTimeKept(digest, last, updated, t) == updated

\* else: last_update_time = time.time()
NextUpdateTime(digest, last, updated, t) ==
    IF digest = last THEN updated ELSE t

\* acceptance one unchanged round early
AcceptsOneRoundEarly(count, t, updated) ==
    count >= StableThreshold - 1 \/ t - updated > StaleDuration

\* acceptance without the stale branch
AcceptsRoundsOnly(count, t, updated) ==
    count >= StableThreshold

\* if stable_count >= 3 or (time.time() - last_update_time > 10)
Accepts(count, t, updated) ==
    count >= StableThreshold \/ t - updated > StaleDuration

\* the value send_and_get passes for the parameter timeout:
\* self._monitor_for_response(composed_prompt, sent_at)
MonitorTimeout(sentAt) == sentAt

----------------------------------------------------------------------------
(* S2TSPipeline.__init__ *)

\* the arguments of an invocation not made yet
NoRequest ==
    [audio |-> FALSE, enable_asr |-> FALSE, enable_clean |-> FALSE,
     enable_translate |-> FALSE, enable_tts |-> FALSE,
     target_langs |-> <<>>, manual_text |-> <<>>]

\* self.is_running = False, and no invocation of run_full_pipeline made
\* no stage function has been entered
NoStageCall ==
    /\ previous_candidate = None
    /\ identical_polls = 0
    /\ events = <<>>
    /\ calls = <<>>
    /\ sends = 0
    /\ start_time = 0
    /\ stage_return = None

NoPipeline ==
    /\ is_running = FALSE
    /\ at = [i \in 1..MaxInvocations |-> "idle"]
    /\ req = [i \in 1..MaxInvocations |-> NoRequest]
    /\ asr_output = [i \in 1..MaxInvocations |-> <<>>]
    /\ cleaned_text = [i \in 1..MaxInvocations |-> <<>>]
    /\ lang_index = [i \in 1..MaxInvocations |-> 0]
    /\ translations = [i \in 1..MaxInvocations |-> <<>>]
    /\ tts_outputs = [i \in 1..MaxInvocations |-> <<>>]
    /\ clean_outcome = [i \in 1..MaxInvocations |-> Running]
    /\ translate_calls = [i \in 1..MaxInvocations |-> <<>>]

MonitorThreads == 1..MaxThreads

\* ResourceMonitor.__init__: Event() not set, _monitor_thread = None
NoMonitor ==
    /\ stop_event = FALSE
    /\ monitor_thread = 0
    /\ thread_pc = [t \in MonitorThreads |-> "unborn"]
    /\ wake_in = [t \in MonitorThreads |-> 0]
    /\ caller = "idle"
    /\ join_left = 0
    /\ last_call = "none"

\* StageProgress.__init__ and reset: the entry of a stage not started
PendingStage == [progress |-> 0, status |-> "pending"]

\* StageProgress.__init__
NoProgress ==
    stages = [n \in {"asr", "clean", "translate", "tts"} |-> PendingStage]

\* the stage names and cache keys passed to StateManager
CacheStages == { <<"a">>, <<"a", "_", "b">> }

CacheKeys == { <<"c">>, <<"b", "_", "c">> }

CacheResults == {"r1", "r2"}

\* StateManager.__init__ with no state file: self.state = {}
NoCache ==
    /\ cache = <<>>
    /\ state_file = <<>>
    /\ cached = [pair \in CacheStages \X CacheKeys |-> "None"]

\* run_asr at the entry of its wait loop: show_btn = None, no poll taken
NoAsr ==
    /\ asr_pc = "waiting"
    /\ poll_i = 0
    /\ asr_waited = 0
    /\ show_found = FALSE
    /\ asr_clip = None
    /\ asr_dir = <<>>
    /\ asr_source = "none"
    /\ asr_text = <<>>

\* the utilities as constructed
NoUtil == NoMonitor /\ NoProgress /\ NoCache /\ NoAsr

\* the session, the stage functions and the pipeline at rest, pc at p
CoreIdle(p) ==
    /\ pc = p
    /\ now = 0
    /\ composed_prompt = <<>>
    /\ sent_at = 0
    /\ timeout = 0
    /\ start = 0
    /\ last_digest = None
    /\ stable_count = 0
    /\ best_seen = <<>>
    /\ last_update_time = 0
    /\ page_text = <<>>
    /\ current_reply = <<>>
    /\ poll_time = 0
    /\ best_response = None
    /\ outcome = Running
    /\ observed = {}
    /\ request = CleanRequest
    /\ script = <<>>
    /\ script_pos = 0
    /\ raw_text = <<>>
    /\ sent_blob = <<>>
    /\ extracted = None
    /\ extracted_twice = None
    /\ handle = NoProcess
    /\ launch = "NotTried"
    /\ clipboard = <<>>
    /\ raised = NoError
    /\ original = NoError
    /\ result = None
    /\ stop_calls = 0
    /\ terminate_calls = 0
    /\ kill_calls = 0
    /\ click_copied = "NotPolled"
    /\ fallback_ran = FALSE
    /\ capture_fault = "None"
    /\ NoStageCall
    /\ NoPipeline


----------------------------------------------------------------------------
(* RobustGuiEngine.send_and_get *)

Init ==
    /\ pc = "ready"
    /\ \E sc \in Scenarios :
          /\ script = sc[1]
          /\ request = sc[2]
          /\ now = sc[3]
    /\ composed_prompt = <<>>
    /\ sent_at = 0
    /\ timeout = 0
    /\ start = 0
    /\ last_digest = None
    /\ stable_count = 0
    /\ best_seen = <<>>
    /\ last_update_time = 0
    /\ page_text = <<>>
    /\ current_reply = <<>>
    /\ poll_time = 0
    /\ best_response = None
    /\ outcome = Running
    /\ observed = {}
    /\ script_pos = 0
    /\ raw_text = <<>>
    /\ sent_blob = <<>>
    /\ extracted = None
    /\ extracted_twice = None
    /\ handle = "Process"
    /\ launch = "Launched"
    /\ clipboard = <<>>
    /\ raised = NoError
    /\ original = NoError
    /\ result = None
    /\ stop_calls = 0
    /\ terminate_calls = 0
    /\ kill_calls = 0
    /\ click_copied = "NotPolled"
    /\ fallback_ran = FALSE
    /\ capture_fault = "None"
    /\ NoStageCall
    /\ NoPipeline
    /\ NoUtil

\* compose, copy to the clipboard, paste, press enter, take sent_at, sleep 10
SendPrompt ==
    /\ pc = "ready"
    /\ composed_prompt' = ComposePrompt(request[1], request[2], request[3])
    /\ sent_at' = AfterSleep(AfterSleep(now, PasteDelay), ConfirmDelay)
    /\ now' = AfterSleep(sent_at', PostSendDelay)
    /\ clipboard' = ClipboardAfterCopy(composed_prompt')
    /\ pc' = "monitor"
    /\ UNCHANGED <<timeout, start, last_digest, stable_count, best_seen,
                   last_update_time, page_text, current_reply, poll_time,
                   best_response, outcome, observed, request, script,
                   script_pos>>
    /\ UNCHANGED extractVars
    /\ UNCHANGED runVars
    /\ events' = SendSteps("None")
    /\ UNCHANGED pipeVars
    /\ sends' = sends + 1
    /\ UNCHANGED <<calls, start_time, stage_return>>
    /\ UNCHANGED <<handle, launch, raised, original, result, stop_calls,
                   terminate_calls, kill_calls, click_copied, fallback_ran,
                   capture_fault>>
    /\ UNCHANGED utilVars

\* entry of _monitor_for_response up to the first test of the loop
MonitorStart ==
    /\ pc = "monitor"
    /\ timeout' = MonitorTimeout(sent_at)
    /\ start' = now
    /\ last_digest' = None
    /\ stable_count' = 0
    /\ best_seen' = <<>>
    /\ last_update_time' = now
    /\ now' = AfterSleep(now, WarmupDelay)
    /\ pc' = "loop"
    /\ UNCHANGED <<composed_prompt, sent_at, page_text, current_reply,
                   poll_time, best_response, outcome, observed, request,
                   script, script_pos>>
    /\ UNCHANGED extractVars
    /\ UNCHANGED runVars
    /\ events' = Append(events, "warmup")
    /\ UNCHANGED pipeVars
    /\ UNCHANGED stageVars
    /\ UNCHANGED sessVars
    /\ UNCHANGED utilVars

\* the pages the surface can show at this poll
PollPages ==
    IF script = <<>> THEN Pages(composed_prompt)
    ELSE { EchoThen(composed_prompt,
                    script[(script_pos % Len(script)) + 1]) }

\* the body of the while loop from the value page returned by
\* _copy_page_content, examined at time t
PollWith(page, t) ==
    LET reply == ReplyTable[composed_prompt][page]
        digest == Digest(reply)
        count == NextStableCount(digest, last_digest, stable_count)
        updated == NextUpdateTime(digest, last_digest, last_update_time, t)
        best == UpdateBestSeen(reply, best_seen)
    IN  /\ page_text' = page
        /\ poll_time' = t
        /\ current_reply' = reply
        /\ IF IsNoContent(reply)
           THEN /\ now' = AfterSleep(t, EmptyPollDelay)
                /\ pc' = "loop"
                /\ UNCHANGED <<last_digest, stable_count, best_seen,
                               last_update_time, best_response, outcome,
                               observed>>
                /\ UNCHANGED runVars
           ELSE /\ best_seen' = best
                /\ previous_candidate' = reply
                /\ identical_polls' = IF reply = previous_candidate
                                      THEN identical_polls + 1 ELSE 1
                /\ last_digest' = digest
                /\ stable_count' = count
                /\ last_update_time' = updated
                /\ observed' = observed \cup {reply}
                /\ IF Accepts(count, t, updated)
                   THEN /\ now' = t
                        /\ best_response' = best
                        /\ outcome' = "Stabilized"
                        /\ pc' = "returned"
                   ELSE /\ now' = AfterSleep(t, SampleDelay)
                        /\ pc' = "loop"
                        /\ UNCHANGED <<best_response, outcome>>

\* one iteration of the while loop, no call of the capture raising
Poll ==
    /\ pc = "loop"
    /\ LoopRuns(now, start, timeout)
    /\ \E page \in PollPages, lag \in 0..MaxPollLag :
          /\ PollWith(page, now + lag)
          /\ clipboard' = page
    /\ script_pos' = IF script = <<>> THEN script_pos ELSE script_pos + 1
    /\ UNCHANGED <<composed_prompt, sent_at, timeout, start, request, script>>
    /\ UNCHANGED extractVars
    /\ events' = IF "capture" \in Range(events) THEN events
                 ELSE Append(events, "capture")
    /\ UNCHANGED pipeVars
    /\ UNCHANGED stageVars
    /\ UNCHANGED <<handle, launch, raised, original, result, stop_calls,
                   terminate_calls, kill_calls, click_copied, fallback_ran,
                   capture_fault>>
    /\ UNCHANGED utilVars

\* the loop test fails: return best_seen
MonitorTimedOut ==
    /\ pc = "loop"
    /\ ~LoopRuns(now, start, timeout)
    /\ best_response' = best_seen
    /\ outcome' = "TimedOut"
    /\ pc' = "returned"
    /\ UNCHANGED <<now, composed_prompt, sent_at, timeout, start, last_digest,
                   stable_count, best_seen, last_update_time, page_text,
                   current_reply, poll_time, observed, request, script,
                   script_pos>>
    /\ UNCHANGED extractVars
    /\ UNCHANGED runVars
    /\ UNCHANGED events
    /\ UNCHANGED pipeVars
    /\ UNCHANGED stageVars
    /\ UNCHANGED sessVars
    /\ UNCHANGED utilVars

Next == SendPrompt \/ MonitorStart \/ Poll \/ MonitorTimedOut

Spec == Init /\ [][Next]_vars

----------------------------------------------------------------------------
(* _extract_reply applied alone to bounded raw texts and sent blobs *)

Tokens == {"a", "b", " ", "\n", "Copy", "Share"}

RECURSIVE TextsUpTo(_)
TextsUpTo(n) ==
    IF n = 0 THEN { <<>> }
    ELSE LET shorter == TextsUpTo(n - 1)
         IN  shorter \cup { Append(t, c) : t \in shorter, c \in Tokens }

RawTexts == TextsUpTo(MaxPieces)

Blobs == { <<>>, <<"a">>, <<"a", "b">>, <<"a", "a">> }

InitExtract ==
    /\ pc = "extract"
    /\ now = 0
    /\ composed_prompt = <<>>
    /\ sent_at = 0
    /\ timeout = 0
    /\ start = 0
    /\ last_digest = None
    /\ stable_count = 0
    /\ best_seen = <<>>
    /\ last_update_time = 0
    /\ page_text = <<>>
    /\ current_reply = <<>>
    /\ poll_time = 0
    /\ best_response = None
    /\ outcome = Running
    /\ observed = {}
    /\ request = CleanRequest
    /\ script = <<>>
    /\ script_pos = 0
    /\ raw_text \in RawTexts
    /\ sent_blob \in Blobs
    /\ extracted = None
    /\ extracted_twice = None
    /\ handle = "Process"
    /\ launch = "Launched"
    /\ clipboard = <<>>
    /\ raised = NoError
    /\ original = NoError
    /\ result = None
    /\ stop_calls = 0
    /\ terminate_calls = 0
    /\ kill_calls = 0
    /\ click_copied = "NotPolled"
    /\ fallback_ran = FALSE
    /\ capture_fault = "None"
    /\ NoStageCall
    /\ NoPipeline
    /\ NoUtil

ExtractCall ==
    /\ pc = "extract"
    /\ extracted = None
    /\ extracted' = ExtractReply(raw_text, sent_blob)
    /\ UNCHANGED <<raw_text, sent_blob, extracted_twice>>
    /\ UNCHANGED stabVars
    /\ UNCHANGED runVars
    /\ UNCHANGED events
    /\ UNCHANGED sessVars
    /\ UNCHANGED pipeVars
    /\ UNCHANGED stageVars
    /\ UNCHANGED utilVars

\* _extract_reply called on its own result, with the same sent_text
ExtractAgain ==
    /\ pc = "extract"
    /\ extracted # None
    /\ extracted_twice = None
    /\ extracted_twice' = ExtractReply(extracted, sent_blob)
    /\ UNCHANGED <<raw_text, sent_blob, extracted>>
    /\ UNCHANGED stabVars
    /\ UNCHANGED runVars
    /\ UNCHANGED events
    /\ UNCHANGED sessVars
    /\ UNCHANGED pipeVars
    /\ UNCHANGED stageVars
    /\ UNCHANGED utilVars

NextExtract == ExtractCall \/ ExtractAgain

SpecExtract == InitExtract /\ [][NextExtract]_vars

----------------------------------------------------------------------------
(* The Session: RobustGuiEngine.start, send_and_get and stop with the calls *)
(* that can raise, driven as clean_text_gui and translate_text drive it     *)
(* (the stage functions name the class GuiEngine; RobustGuiEngine is the    *)
(* engine class of utils.gui_automation)                                    *)

\* subprocess.Popen([chrome_path, url]): returns, or raises
LaunchOutcomes == {"Launched", "FileNotFoundError", "OSError"}

\* a handle recorded whatever Popen did
HandleAfterLaunchAlways(h, o) == "Process"

\* self._browser_process = subprocess.Popen(...): assigned when Popen returns
HandleAfterLaunch(h, o) == IF o = "Launched" THEN "Process" ELSE h

\* what the process and the calls on it do in one stop():
\*   Terminated       terminate() and wait(timeout=5) return
\*   TerminateRaises  terminate() raises
\*   WaitRaises       wait() raises an exception other than TimeoutExpired
\*   Killed           wait() raises TimeoutExpired, kill() returns
\*   KillRaises       wait() raises TimeoutExpired, kill() raises
StopOutcomes(h) ==
    IF h = NoProcess THEN {"NoProcess"}
    ELSE {"Terminated", "TerminateRaises", "WaitRaises", "Killed", "KillRaises"}

\* a stop() without the finally clause
StopKeepsHandle(h, o) ==
    IF h = NoProcess
    THEN [handle |-> NoProcess, terminates |-> 0, kills |-> 0, waited |-> 0,
          escapes |-> NoError]
    ELSE [handle |-> h,
          terminates |-> 1,
          kills |-> IF o \in {"Killed", "KillRaises"} THEN 1 ELSE 0,
          waited |-> IF o \in {"Killed", "KillRaises"} THEN WaitTimeout ELSE 0,
          escapes |-> IF o = "KillRaises" THEN "PermissionError" ELSE NoError]

\* a stop() that clears the handle at the end of its try body only
StopKeepsHandleOnError(h, o) ==
    IF h = NoProcess
    THEN [handle |-> NoProcess, terminates |-> 0, kills |-> 0, waited |-> 0,
          escapes |-> NoError]
    ELSE [handle |-> IF o = "Terminated" THEN NoProcess ELSE h,
          terminates |-> 1,
          kills |-> IF o \in {"Killed", "KillRaises"} THEN 1 ELSE 0,
          waited |-> IF o \in {"Killed", "KillRaises"} THEN WaitTimeout ELSE 0,
          escapes |-> IF o = "KillRaises" THEN "PermissionError" ELSE NoError]

\* RobustGuiEngine.stop on handle h with outcome o: the handle left, the calls
\* made, the seconds waited and the exception that leaves stop()
Stop(h, o) ==
    IF h = NoProcess
    THEN [handle |-> NoProcess, terminates |-> 0, kills |-> 0, waited |-> 0,
          escapes |-> NoError]
    ELSE [handle |-> NoProcess,
          terminates |-> 1,
          kills |-> IF o \in {"Killed", "KillRaises"} THEN 1 ELSE 0,
          waited |-> IF o \in {"Killed", "KillRaises"} THEN WaitTimeout ELSE 0,
          escapes |-> IF o = "KillRaises" THEN "PermissionError" ELSE NoError]

\* what pyautogui.click(*copy_btn_coords) does: raises, copies nothing, or
\* puts a text on the clipboard
ClickOutcomes(pages) ==
    { <<"Raises">>, <<"Nothing">> }
        \cup { <<"Copies", p>> : p \in pages \cup { <<>> } }

\* what pyperclip.paste() does after the click
PasteOutcomes == {"Returns", "Raises"}

\* what the select-all + copy steps do: one of them raises, or ctrl+c puts a
\* text on the clipboard
FallbackOutcomes(pages) ==
    { <<"Raises">> } \cup { <<"Copies", p>> : p \in pages \cup { <<>> } }

\* RobustGuiEngine._copy_page_content with the clipboard holding cb
CopyPageContent(cb, click, paste, fb) ==
    IF click[1] = "Raises"
    THEN [fault |-> "click", error |-> "FailSafeException", text |-> <<>>,
          clipboard |-> cb, fallback |-> FALSE]
    ELSE LET content == IF click[1] = "Copies" THEN click[2] ELSE cb
         IN  IF paste = "Raises"
             THEN [fault |-> "paste", error |-> "PyperclipException",
                   text |-> <<>>, clipboard |-> content, fallback |-> FALSE]
             ELSE IF content # <<>>
             THEN [fault |-> "None", error |-> NoError, text |-> Strip(content),
                   clipboard |-> content, fallback |-> FALSE]
             ELSE IF fb[1] = "Raises"
             THEN [fault |-> "fallback", error |-> NoError, text |-> <<>>,
                   clipboard |-> content, fallback |-> TRUE]
             ELSE [fault |-> "None", error |-> NoError, text |-> Strip(fb[2]),
                   clipboard |-> fb[2], fallback |-> TRUE]

\* the calls of send_and_get's sending steps that can raise
SendFaults == {"None", "copy", "hotkey", "press"}

\* the stage calls explored: (script, request, clock at entry)
SessionScenarios ==
    { << EmptyThenAb, TranslateRequest, SessionClock >>,
      << EchoOnly, CleanRequest, SessionClock >> }

\* engine = GuiEngine(engine_config): RobustGuiEngine.__init__
InitSession ==
    /\ pc = "stage"
    /\ \E sc \in SessionScenarios :
          /\ script = sc[1]
          /\ request = sc[2]
          /\ now = sc[3]
    /\ composed_prompt = <<>>
    /\ sent_at = 0
    /\ timeout = 0
    /\ start = 0
    /\ last_digest = None
    /\ stable_count = 0
    /\ best_seen = <<>>
    /\ last_update_time = 0
    /\ page_text = <<>>
    /\ current_reply = <<>>
    /\ poll_time = 0
    /\ best_response = None
    /\ outcome = Running
    /\ observed = {}
    /\ script_pos = 0
    /\ raw_text = <<>>
    /\ sent_blob = <<>>
    /\ extracted = None
    /\ extracted_twice = None
    /\ handle = NoProcess
    /\ launch = "NotTried"
    /\ clipboard = <<>>
    /\ raised = NoError
    /\ original = NoError
    /\ result = None
    /\ stop_calls = 0
    /\ terminate_calls = 0
    /\ kill_calls = 0
    /\ click_copied = "NotPolled"
    /\ fallback_ran = FALSE
    /\ capture_fault = "None"
    /\ previous_candidate = None
    /\ identical_polls = 0
    /\ events = <<>>
    /\ calls = <<>>
    /\ sends = 0
    /\ start_time = now
    /\ stage_return = None
    /\ NoPipeline
    /\ NoUtil

\* engine.start(), called by the stage function; an exception of start()
\* leaves the stage function at once
StartEngine ==
    /\ pc = "stage"
    /\ \E o \in LaunchOutcomes :
          /\ launch' = o
          /\ handle' = HandleAfterLaunch(handle, o)
          /\ IF o = "Launched"
             THEN /\ now' = AfterSleep(now, PAGE_READY_DELAY)
                  /\ pc' = "ready"
                  /\ UNCHANGED raised
             ELSE /\ raised' = o
                  /\ pc' = "stage_raised"
                  /\ UNCHANGED now
    /\ UNCHANGED <<composed_prompt, sent_at, timeout, start, last_digest,
                   stable_count, best_seen, last_update_time, page_text,
                   current_reply, poll_time, best_response, outcome, observed,
                   request, script, script_pos>>
    /\ UNCHANGED extractVars
    /\ UNCHANGED runVars
    /\ UNCHANGED events
    /\ UNCHANGED pipeVars
    /\ calls' = Append(calls, "start")
    /\ UNCHANGED <<sends, start_time, stage_return>>
    /\ UNCHANGED <<clipboard, original, result, stop_calls, terminate_calls,
                   kill_calls, click_copied, fallback_ran, capture_fault>>
    /\ UNCHANGED utilVars

\* send_and_get up to the call of _monitor_for_response, any of
\* pyperclip.copy, pyautogui.hotkey, pyautogui.press raising
SessionSend ==
    /\ pc = "ready"
    /\ composed_prompt' = ComposePrompt(request[1], request[2], request[3])
    /\ \E fault \in SendFaults :
          /\ clipboard' = IF fault = "copy" THEN clipboard
                          ELSE ClipboardAfterCopy(composed_prompt')
          /\ events' = SendSteps(fault)
          /\ IF fault = "None"
             THEN /\ sent_at' = AfterSleep(AfterSleep(now, PasteDelay), ConfirmDelay)
                  /\ now' = AfterSleep(sent_at', PostSendDelay)
                  /\ pc' = "monitor"
                  /\ UNCHANGED <<raised, original>>
             ELSE /\ now' = CASE fault = "copy" -> now
                              [] fault = "hotkey" -> AfterSleep(now, PasteDelay)
                              [] fault = "press" ->
                                    AfterSleep(AfterSleep(now, PasteDelay), ConfirmDelay)
                  /\ raised' = IF fault = "copy" THEN "PyperclipException"
                               ELSE "FailSafeException"
                  /\ original' = raised'
                  /\ pc' = "except"
                  /\ UNCHANGED sent_at
    /\ UNCHANGED <<timeout, start, last_digest, stable_count, best_seen,
                   last_update_time, page_text, current_reply, poll_time,
                   best_response, outcome, observed, request, script,
                   script_pos>>
    /\ UNCHANGED extractVars
    /\ UNCHANGED runVars
    /\ UNCHANGED pipeVars
    /\ calls' = Append(calls, "send_and_get")
    /\ sends' = IF pc' = "monitor" THEN sends + 1 ELSE sends
    /\ UNCHANGED <<start_time, stage_return>>
    /\ UNCHANGED <<handle, launch, result, stop_calls, terminate_calls,
                   kill_calls, click_copied, fallback_ran, capture_fault>>
    /\ UNCHANGED utilVars

\* one iteration of the while loop with the steps of _copy_page_content
SessionPoll ==
    /\ pc = "loop"
    /\ LoopRuns(now, start, timeout)
    /\ \E click \in ClickOutcomes(PollPages), paste \in PasteOutcomes,
          fb \in FallbackOutcomes(PollPages), lag \in 0..MaxPollLag :
          LET got == CopyPageContent(clipboard, click, paste, fb)
          IN  /\ clipboard' = got.clipboard
              /\ click_copied' = click[1]
              /\ fallback_ran' = got.fallback
              /\ capture_fault' = got.fault
              /\ IF got.error # NoError
                 THEN /\ raised' = got.error
                      /\ original' = got.error
                      /\ now' = now + lag
                      /\ pc' = "except"
                      /\ UNCHANGED <<last_digest, stable_count, best_seen,
                                     last_update_time, page_text, current_reply,
                                     poll_time, best_response, outcome, observed>>
                      /\ UNCHANGED runVars
                 ELSE /\ PollWith(got.text, now + lag)
                      /\ UNCHANGED <<raised, original>>
    /\ script_pos' = script_pos + 1
    /\ UNCHANGED <<composed_prompt, sent_at, timeout, start, request, script>>
    /\ UNCHANGED extractVars
    /\ events' = IF "capture" \in Range(events) THEN events
                 ELSE Append(events, "capture")
    /\ UNCHANGED pipeVars
    /\ UNCHANGED stageVars
    /\ UNCHANGED <<handle, launch, result, stop_calls, terminate_calls,
                   kill_calls>>
    /\ UNCHANGED utilVars

\* the state stop() leaves, for the outcome o
StopEffect(o) ==
    LET did == Stop(handle, o)
    IN  /\ handle' = did.handle
        /\ stop_calls' = stop_calls + 1
        /\ terminate_calls' = terminate_calls + did.terminates
        /\ kill_calls' = kill_calls + did.kills
        /\ now' = now + did.waited

\* _monitor_for_response has returned: return best_response, through the
\* finally clause; an exception leaving stop() takes the place of the value
ReturnResponse ==
    /\ pc = "returned"
    /\ \E o \in StopOutcomes(handle) :
          /\ StopEffect(o)
          /\ raised' = Stop(handle, o).escapes
          /\ result' = IF raised' = NoError THEN best_response ELSE None
    /\ pc' = "exited"
    /\ UNCHANGED <<composed_prompt, sent_at, timeout, start, last_digest,
                   stable_count, best_seen, last_update_time, page_text,
                   current_reply, poll_time, best_response, outcome, observed,
                   request, script, script_pos>>
    /\ UNCHANGED extractVars
    /\ UNCHANGED runVars
    /\ UNCHANGED events
    /\ UNCHANGED pipeVars
    /\ UNCHANGED stageVars
    /\ UNCHANGED <<launch, clipboard, original, click_copied, fallback_ran,
                   capture_fault>>
    /\ UNCHANGED utilVars

\* except Exception: log, screenshot, self.stop(), raise; an exception leaving
\* stop() takes the place of the one being handled
HandleError ==
    /\ pc = "except"
    /\ \E o \in StopOutcomes(handle) :
          /\ StopEffect(o)
          /\ raised' = IF Stop(handle, o).escapes # NoError
                       THEN Stop(handle, o).escapes ELSE raised
    /\ pc' = "finally"
    /\ UNCHANGED <<composed_prompt, sent_at, timeout, start, last_digest,
                   stable_count, best_seen, last_update_time, page_text,
                   current_reply, poll_time, best_response, outcome, observed,
                   request, script, script_pos>>
    /\ UNCHANGED extractVars
    /\ UNCHANGED runVars
    /\ UNCHANGED events
    /\ UNCHANGED pipeVars
    /\ UNCHANGED stageVars
    /\ UNCHANGED <<launch, clipboard, original, result, click_copied,
                   fallback_ran, capture_fault>>
    /\ UNCHANGED utilVars

\* finally: self.stop(), with an exception propagating
FinallyStop ==
    /\ pc = "finally"
    /\ \E o \in StopOutcomes(handle) :
          /\ StopEffect(o)
          /\ raised' = IF Stop(handle, o).escapes # NoError
                       THEN Stop(handle, o).escapes ELSE raised
    /\ pc' = "exited"
    /\ UNCHANGED <<composed_prompt, sent_at, timeout, start, last_digest,
                   stable_count, best_seen, last_update_time, page_text,
                   current_reply, poll_time, best_response, outcome, observed,
                   request, script, script_pos>>
    /\ UNCHANGED extractVars
    /\ UNCHANGED runVars
    /\ UNCHANGED events
    /\ UNCHANGED pipeVars
    /\ UNCHANGED stageVars
    /\ UNCHANGED <<launch, clipboard, original, result, click_copied,
                   fallback_ran, capture_fault>>
    /\ UNCHANGED utilVars

\* the stage function returns the reply alone
StageReturnReplyOnly(cleaned, started, t) == <<cleaned, 0>>

\* duration = time.time() - start_time; return cleaned, duration
StageReturn(cleaned, started, t) == <<cleaned, t - started>>

\* the stage function after send_and_get returned: engine.stop(), then the
\* return of the text with the duration
StageStop ==
    /\ pc = "exited"
    /\ raised = NoError
    /\ \E o \in StopOutcomes(handle) :
          /\ StopEffect(o)
          /\ raised' = Stop(handle, o).escapes
    /\ pc' = IF raised' = NoError THEN "stage_done" ELSE "stage_raised"
    /\ UNCHANGED <<composed_prompt, sent_at, timeout, start, last_digest,
                   stable_count, best_seen, last_update_time, page_text,
                   current_reply, poll_time, best_response, outcome, observed,
                   request, script, script_pos>>
    /\ UNCHANGED extractVars
    /\ UNCHANGED runVars
    /\ UNCHANGED events
    /\ UNCHANGED pipeVars
    /\ calls' = Append(calls, "stop")
    /\ stage_return' = IF raised' = NoError
                       THEN StageReturn(result, start_time, now')
                       ELSE stage_return
    /\ UNCHANGED <<sends, start_time>>
    /\ UNCHANGED <<launch, clipboard, original, result, click_copied,
                   fallback_ran, capture_fault>>
    /\ UNCHANGED utilVars

\* the stage function when send_and_get raised: the exception leaves it
StagePropagates ==
    /\ pc = "exited"
    /\ raised # NoError
    /\ pc' = "stage_raised"
    /\ UNCHANGED <<now, composed_prompt, sent_at, timeout, start, last_digest,
                   stable_count, best_seen, last_update_time, page_text,
                   current_reply, poll_time, best_response, outcome, observed,
                   request, script, script_pos>>
    /\ UNCHANGED extractVars
    /\ UNCHANGED runVars
    /\ UNCHANGED events
    /\ UNCHANGED pipeVars
    /\ UNCHANGED stageVars
    /\ UNCHANGED sessVars
    /\ UNCHANGED utilVars

NextSession ==
    \/ StartEngine
    \/ SessionSend
    \/ MonitorStart
    \/ SessionPoll
    \/ MonitorTimedOut
    \/ ReturnResponse
    \/ HandleError
    \/ FinallyStop
    \/ StageStop
    \/ StagePropagates

SpecSession == InitSession /\ [][NextSession]_vars

----------------------------------------------------------------------------
(* One RobustGuiEngine whose caller calls start() and stop() in any order *)

InitEngine ==
    /\ pc = "engine"
    /\ now = 0
    /\ composed_prompt = <<>>
    /\ sent_at = 0
    /\ timeout = 0
    /\ start = 0
    /\ last_digest = None
    /\ stable_count = 0
    /\ best_seen = <<>>
    /\ last_update_time = 0
    /\ page_text = <<>>
    /\ current_reply = <<>>
    /\ poll_time = 0
    /\ best_response = None
    /\ outcome = Running
    /\ observed = {}
    /\ request = CleanRequest
    /\ script = <<>>
    /\ script_pos = 0
    /\ raw_text = <<>>
    /\ sent_blob = <<>>
    /\ extracted = None
    /\ extracted_twice = None
    /\ handle = NoProcess
    /\ launch = "NotTried"
    /\ clipboard = <<>>
    /\ raised = NoError
    /\ original = NoError
    /\ result = None
    /\ stop_calls = 0
    /\ terminate_calls = 0
    /\ kill_calls = 0
    /\ click_copied = "NotPolled"
    /\ fallback_ran = FALSE
    /\ capture_fault = "None"
    /\ NoStageCall
    /\ NoPipeline
    /\ NoUtil

\* engine.start(): Popen and the page-ready sleep, or the exception raised
EngineStart ==
    /\ pc = "engine"
    /\ Len(calls) < MaxEngineCalls
    /\ \E o \in LaunchOutcomes :
          /\ launch' = o
          /\ handle' = HandleAfterLaunch(handle, o)
          /\ raised' = IF o = "Launched" THEN NoError ELSE o
          /\ now' = IF o = "Launched" THEN AfterSleep(now, PAGE_READY_DELAY)
                    ELSE now
    /\ calls' = Append(calls, "start")
    /\ UNCHANGED <<pc, composed_prompt, sent_at, timeout, start, last_digest,
                   stable_count, best_seen, last_update_time, page_text,
                   current_reply, poll_time, best_response, outcome, observed,
                   request, script, script_pos>>
    /\ UNCHANGED <<clipboard, original, result, stop_calls, terminate_calls,
                   kill_calls, click_copied, fallback_ran, capture_fault>>
    /\ UNCHANGED <<sends, start_time, stage_return>>
    /\ UNCHANGED <<extractVars, runVars, events, pipeVars>>
    /\ UNCHANGED utilVars

\* engine.stop()
EngineStop ==
    /\ pc = "engine"
    /\ Len(calls) < MaxEngineCalls
    /\ \E o \in StopOutcomes(handle) :
          /\ StopEffect(o)
          /\ raised' = Stop(handle, o).escapes
    /\ calls' = Append(calls, "stop")
    /\ UNCHANGED <<pc, composed_prompt, sent_at, timeout, start, last_digest,
                   stable_count, best_seen, last_update_time, page_text,
                   current_reply, poll_time, best_response, outcome, observed,
                   request, script, script_pos>>
    /\ UNCHANGED <<launch, clipboard, original, result, click_copied,
                   fallback_ran, capture_fault>>
    /\ UNCHANGED <<sends, start_time, stage_return>>
    /\ UNCHANGED <<extractVars, runVars, events, pipeVars>>
    /\ UNCHANGED utilVars

NextEngine == EngineStart \/ EngineStop

SpecEngine == InitEngine /\ [][NextEngine]_vars

----------------------------------------------------------------------------
(* S2TSPipeline.run_full_pipeline (main.py), invoked by the handler of       *)
(* run_btn.click. Each invocation runs its stages in program order; a stage *)
(* function is followed through engine.start() and through send_and_get,    *)
(* which leaves the Session closed. Nothing in main.py limits the handlers  *)
(* that run at a time, so invocations interleave.                           *)

Invocations == 1..MaxInvocations

\* the arguments of run_full_pipeline chosen in the UI
FullRequest ==
    [audio |-> TRUE, enable_asr |-> TRUE, enable_clean |-> TRUE,
     enable_translate |-> TRUE, enable_tts |-> TRUE,
     target_langs |-> <<"Hindi", "Kannada">>, manual_text |-> <<>>]

ManualRequest ==
    [audio |-> FALSE, enable_asr |-> FALSE, enable_clean |-> TRUE,
     enable_translate |-> TRUE, enable_tts |-> FALSE,
     target_langs |-> <<"Hindi">>, manual_text |-> <<"T">>]

SpeakRequest ==
    [audio |-> FALSE, enable_asr |-> FALSE, enable_clean |-> FALSE,
     enable_translate |-> FALSE, enable_tts |-> TRUE,
     target_langs |-> <<>>, manual_text |-> <<"T", " ">>]

PipelineRequests == {FullRequest, ManualRequest, SpeakRequest}

\* the texts a stage can return
StageTexts == { <<>>, <<"T">> }

\* the Session of invocation i is Active: started and not yet stopped
SessionActive(i) == at[i] \in {"clean_session", "translate_session"}

\* the ASR surface automation of invocation i is running
AsrRunning(i) == at[i] = "asr_running"

InitPipeline ==
    /\ pc = "pipeline"
    /\ now = 0
    /\ composed_prompt = <<>>
    /\ sent_at = 0
    /\ timeout = 0
    /\ start = 0
    /\ last_digest = None
    /\ stable_count = 0
    /\ best_seen = <<>>
    /\ last_update_time = 0
    /\ page_text = <<>>
    /\ current_reply = <<>>
    /\ poll_time = 0
    /\ best_response = None
    /\ outcome = Running
    /\ observed = {}
    /\ request = CleanRequest
    /\ script = <<>>
    /\ script_pos = 0
    /\ raw_text = <<>>
    /\ sent_blob = <<>>
    /\ extracted = None
    /\ extracted_twice = None
    /\ handle = NoProcess
    /\ launch = "NotTried"
    /\ clipboard = <<>>
    /\ raised = NoError
    /\ original = NoError
    /\ result = None
    /\ stop_calls = 0
    /\ terminate_calls = 0
    /\ kill_calls = 0
    /\ click_copied = "NotPolled"
    /\ fallback_ran = FALSE
    /\ capture_fault = "None"
    /\ NoStageCall
    /\ NoPipeline
    /\ NoUtil

\* a stage that runs whenever it is enabled
StageEnabledByFlag(enabled, text) == enabled

\* if enable_clean and asr_output.strip() / if enable_translate and
\* cleaned_text.strip()
StageEnabled(enabled, text) == enabled /\ Strip(text) # <<>>

\* the handler of run_btn.click calls run_full_pipeline: self.is_running = True,
\* asr_output = manual_text
Invoke(i) ==
    /\ at[i] = "idle"
    /\ \E r \in PipelineRequests :
          /\ req' = [req EXCEPT ![i] = r]
          /\ asr_output' = [asr_output EXCEPT ![i] = r.manual_text]
    /\ is_running' = TRUE
    /\ at' = [at EXCEPT ![i] = "asr_stage"]
    /\ UNCHANGED <<cleaned_text, lang_index, translations, tts_outputs,
                   clean_outcome, translate_calls>>
    /\ UNCHANGED <<stabVars, extractVars, sessVars, stageVars,
                   runVars, events>>
    /\ UNCHANGED utilVars

\* if enable_asr and audio_file: run_asr is entered
AsrBegin(i) ==
    /\ at[i] = "asr_stage"
    /\ at' = [at EXCEPT ![i] = IF req[i].enable_asr /\ req[i].audio
                               THEN "asr_running" ELSE "clean_stage"]
    /\ UNCHANGED <<is_running, req, asr_output, cleaned_text, lang_index,
                   translations, tts_outputs,
                   clean_outcome, translate_calls>>
    /\ UNCHANGED <<stabVars, extractVars, sessVars, stageVars,
                   runVars, events>>
    /\ UNCHANGED utilVars

\* run_asr returns its text, or raises
AsrEnd(i) ==
    /\ at[i] = "asr_running"
    /\ \/ \E text \in StageTexts :
             /\ asr_output' = [asr_output EXCEPT ![i] = text]
             /\ at' = [at EXCEPT ![i] = "clean_stage"]
       \/ /\ at' = [at EXCEPT ![i] = "raised"]
          /\ UNCHANGED asr_output
    /\ UNCHANGED <<is_running, req, cleaned_text, lang_index, translations,
                   tts_outputs, clean_outcome, translate_calls>>
    /\ UNCHANGED <<stabVars, extractVars, sessVars, stageVars,
                   runVars, events>>
    /\ UNCHANGED utilVars

\* cleaned_text = asr_output; if enable_clean and asr_output.strip():
\* clean_text_gui up to engine.start(), which launches or raises
CleanBegin(i) ==
    /\ at[i] = "clean_stage"
    /\ cleaned_text' = [cleaned_text EXCEPT ![i] = asr_output[i]]
    /\ IF StageEnabled(req[i].enable_clean, asr_output[i])
       THEN \E o \in LaunchOutcomes :
               at' = [at EXCEPT ![i] = IF o = "Launched" THEN "clean_session"
                                       ELSE "raised"]
       ELSE at' = [at EXCEPT ![i] = "translate_stage"]
    /\ UNCHANGED <<is_running, req, asr_output, lang_index, translations,
                   tts_outputs, clean_outcome, translate_calls>>
    /\ UNCHANGED <<stabVars, extractVars, sessVars, stageVars,
                   runVars, events>>
    /\ UNCHANGED utilVars

\* clean_text_gui from send_and_get on: the Session is closed and the text
\* is returned, or the exception of send_and_get leaves run_full_pipeline.
\* The monitor returns after acceptance (a non-empty text) or at its
\* deadline (best_seen, empty when nothing was captured)
CleanEnd(i) ==
    /\ at[i] = "clean_session"
    /\ \/ \E text \in StageTexts, o \in {"Stabilized", "TimedOut"} :
             /\ o = "Stabilized" => text # <<>>
             /\ clean_outcome' = [clean_outcome EXCEPT ![i] = o]
             /\ cleaned_text' = [cleaned_text EXCEPT ![i] = text]
             /\ at' = [at EXCEPT ![i] = "translate_stage"]
       \/ /\ at' = [at EXCEPT ![i] = "raised"]
          /\ UNCHANGED <<cleaned_text, clean_outcome>>
    /\ UNCHANGED <<is_running, req, asr_output, lang_index, translations,
                   tts_outputs, translate_calls>>
    /\ UNCHANGED <<stabVars, extractVars, sessVars, stageVars,
                   runVars, events>>
    /\ UNCHANGED utilVars

\* if enable_translate and cleaned_text.strip(): the next language of
\* target_langs, translate_text up to engine.start()
TranslateBegin(i) ==
    /\ at[i] = "translate_stage"
    /\ IF /\ StageEnabled(req[i].enable_translate, cleaned_text[i])
          /\ lang_index[i] < Len(req[i].target_langs)
       THEN /\ translate_calls' =
                  [translate_calls EXCEPT ![i] =
                      Append(@, <<req[i].target_langs[lang_index[i] + 1],
                                  cleaned_text[i]>>)]
            /\ \E o \in LaunchOutcomes :
                  at' = [at EXCEPT ![i] = IF o = "Launched"
                                          THEN "translate_session" ELSE "raised"]
       ELSE /\ at' = [at EXCEPT ![i] = "tts_stage"]
            /\ UNCHANGED translate_calls
    /\ UNCHANGED <<is_running, req, asr_output, cleaned_text, lang_index,
                   translations, tts_outputs, clean_outcome>>
    /\ UNCHANGED <<stabVars, extractVars, sessVars, stageVars,
                   runVars, events>>
    /\ UNCHANGED utilVars

\* translate_text from send_and_get on: translations[lang] = translated
TranslateEnd(i) ==
    /\ at[i] = "translate_session"
    /\ \/ \E text \in StageTexts :
             /\ translations' =
                   [translations EXCEPT ![i] =
                       Append(@, <<req[i].target_langs[lang_index[i] + 1], text>>)]
             /\ lang_index' = [lang_index EXCEPT ![i] = @ + 1]
             /\ at' = [at EXCEPT ![i] = "translate_stage"]
       \/ /\ at' = [at EXCEPT ![i] = "raised"]
          /\ UNCHANGED <<translations, lang_index>>
    /\ UNCHANGED <<is_running, req, asr_output, cleaned_text, tts_outputs,
                   clean_outcome, translate_calls>>
    /\ UNCHANGED <<stabVars, extractVars, sessVars, stageVars,
                   runVars, events>>
    /\ UNCHANGED utilVars

\* only the cleaned text is spoken
TextsToSpeakOriginalOnly(i) == << <<"original", cleaned_text[i]>> >>

\* texts_to_speak = translations if translations else {'original': cleaned_text}
TextsToSpeak(i) ==
    IF translations[i] # <<>> THEN translations[i]
    ELSE << <<"original", cleaned_text[i]>> >>

\* if enable_tts: synthesize_tts for every text to speak, or one call raises
TtsStage(i) ==
    /\ at[i] = "tts_stage"
    /\ IF req[i].enable_tts
       THEN \/ /\ tts_outputs' = [tts_outputs EXCEPT ![i] = TextsToSpeak(i)]
               /\ at' = [at EXCEPT ![i] = "finish"]
            \/ /\ at' = [at EXCEPT ![i] = "raised"]
               /\ UNCHANGED tts_outputs
       ELSE /\ at' = [at EXCEPT ![i] = "finish"]
            /\ UNCHANGED tts_outputs
    /\ UNCHANGED <<is_running, req, asr_output, cleaned_text, lang_index,
                   translations, clean_outcome, translate_calls>>
    /\ UNCHANGED <<stabVars, extractVars, sessVars, stageVars,
                   runVars, events>>
    /\ UNCHANGED utilVars

\* self.is_running = False; return results
Finish(i) ==
    /\ at[i] = "finish"
    /\ is_running' = FALSE
    /\ at' = [at EXCEPT ![i] = "done"]
    /\ UNCHANGED <<req, asr_output, cleaned_text, lang_index, translations,
                   tts_outputs, clean_outcome, translate_calls>>
    /\ UNCHANGED <<stabVars, extractVars, sessVars, stageVars,
                   runVars, events>>
    /\ UNCHANGED utilVars

NextPipeline ==
    \E i \in Invocations :
        \/ Invoke(i)
        \/ AsrBegin(i)
        \/ AsrEnd(i)
        \/ CleanBegin(i)
        \/ CleanEnd(i)
        \/ TranslateBegin(i)
        \/ TranslateEnd(i)
        \/ TtsStage(i)
        \/ Finish(i)

SpecPipeline == InitPipeline /\ [][NextPipeline]_vars

----------------------------------------------------------------------------
(* ResourceMonitor (utils/resource_monitor.py): start_monitoring and         *)
(* stop_monitoring called one after another by one caller, the threads      *)
(* running _monitor_loop, and time in whole seconds                          *)

Alive(t) == t # 0 /\ thread_pc[t] \in {"test", "update", "sleep"}

\* a start_monitoring without the is_alive test
ShouldStartAlways(thread, alive) == TRUE

\* if self._monitor_thread and self._monitor_thread.is_alive(): return
ShouldStart(thread, alive) == ~(thread # 0 /\ alive)

\* a loop that does not test the stop event
LoopContinuesAlways(event) == TRUE

\* while not self._stop_event.is_set()
LoopContinues(event) == ~event

InitMonitor ==
    /\ CoreIdle("monitoring")
    /\ NoUtil

StartMonitoring ==
    /\ caller = "idle"
    /\ IF ShouldStart(monitor_thread, Alive(monitor_thread))
       THEN /\ \E t \in MonitorThreads : thread_pc[t] = "unborn"
            /\ LET t == CHOOSE u \in MonitorThreads :
                          /\ thread_pc[u] = "unborn"
                          /\ \A v \in MonitorThreads :
                                thread_pc[v] = "unborn" => u <= v
               IN  /\ stop_event' = FALSE
                   /\ monitor_thread' = t
                   /\ thread_pc' = [thread_pc EXCEPT ![t] = "test"]
       ELSE UNCHANGED <<stop_event, monitor_thread, thread_pc>>
    /\ last_call' = "start"
    /\ UNCHANGED <<wake_in, caller, join_left>>
    /\ UNCHANGED <<coreVars, stages, cacheVars, asrVars>>

\* self._stop_event.set(); if self._monitor_thread: join(timeout=2.0) begins
StopMonitoring ==
    /\ caller = "idle"
    /\ stop_event' = TRUE
    /\ IF monitor_thread # 0
       THEN /\ caller' = "joining"
            /\ join_left' = JoinTimeout
            /\ UNCHANGED last_call
       ELSE /\ last_call' = "stop"
            /\ UNCHANGED <<caller, join_left>>
    /\ UNCHANGED <<monitor_thread, thread_pc, wake_in>>
    /\ UNCHANGED <<coreVars, stages, cacheVars, asrVars>>

\* join returns because the thread has ended
JoinReturns ==
    /\ caller = "joining"
    /\ ~Alive(monitor_thread)
    /\ caller' = "idle"
    /\ last_call' = "stop"
    /\ UNCHANGED <<stop_event, monitor_thread, thread_pc, wake_in, join_left>>
    /\ UNCHANGED <<coreVars, stages, cacheVars, asrVars>>

\* join returns because its timeout has passed, the thread still alive
JoinTimesOut ==
    /\ caller = "joining"
    /\ Alive(monitor_thread)
    /\ join_left = 0
    /\ caller' = "idle"
    /\ last_call' = "stop"
    /\ UNCHANGED <<stop_event, monitor_thread, thread_pc, wake_in, join_left>>
    /\ UNCHANGED <<coreVars, stages, cacheVars, asrVars>>

\* the test of the while loop: into update_stats, or out of the loop
LoopTest(t) ==
    /\ thread_pc[t] = "test"
    /\ thread_pc' = [thread_pc EXCEPT ![t] =
                        IF LoopContinues(stop_event) THEN "update" ELSE "dead"]
    /\ UNCHANGED <<stop_event, monitor_thread, wake_in, caller, join_left,
                   last_call>>
    /\ UNCHANGED <<coreVars, stages, cacheVars, asrVars>>

\* self.update_stats(), then time.sleep(interval) begins
UpdateStats(t) ==
    /\ thread_pc[t] = "update"
    /\ thread_pc' = [thread_pc EXCEPT ![t] = "sleep"]
    /\ wake_in' = [wake_in EXCEPT ![t] = MonitorInterval]
    /\ UNCHANGED <<stop_event, monitor_thread, caller, join_left, last_call>>
    /\ UNCHANGED <<coreVars, stages, cacheVars, asrVars>>

\* time.sleep(interval) returns
Wake(t) ==
    /\ thread_pc[t] = "sleep"
    /\ wake_in[t] = 0
    /\ thread_pc' = [thread_pc EXCEPT ![t] = "test"]
    /\ UNCHANGED <<stop_event, monitor_thread, wake_in, caller, join_left,
                   last_call>>
    /\ UNCHANGED <<coreVars, stages, cacheVars, asrVars>>

\* one second passes for the sleeping threads and the waiting join
Tick ==
    /\ \A t \in MonitorThreads :
          /\ thread_pc[t] \notin {"test", "update"}
          /\ thread_pc[t] = "sleep" => wake_in[t] > 0
    /\ caller = "joining" => (join_left > 0 /\ Alive(monitor_thread))
    /\ caller = "joining" \/ \E t \in MonitorThreads : thread_pc[t] = "sleep"
    /\ wake_in' = [t \in MonitorThreads |->
                      IF thread_pc[t] = "sleep" THEN wake_in[t] - 1
                      ELSE wake_in[t]]
    /\ join_left' = IF caller = "joining" THEN join_left - 1 ELSE join_left
    /\ UNCHANGED <<stop_event, monitor_thread, thread_pc, caller, last_call>>
    /\ UNCHANGED <<coreVars, stages, cacheVars, asrVars>>

ThreadStep == \E t \in MonitorThreads : LoopTest(t) \/ UpdateStats(t) \/ Wake(t)

NextMonitor ==
    \/ StartMonitoring
    \/ StopMonitoring
    \/ JoinReturns
    \/ JoinTimesOut
    \/ \E t \in MonitorThreads : LoopTest(t)
    \/ \E t \in MonitorThreads : UpdateStats(t)
    \/ \E t \in MonitorThreads : Wake(t)
    \/ Tick

SpecMonitor == InitMonitor /\ [][NextMonitor]_vars

\* the threads are scheduled, time passes and a join returns
SpecMonitorFair ==
    /\ SpecMonitor
    /\ WF_vars(ThreadStep)
    /\ WF_vars(Tick)
    /\ WF_vars(JoinReturns \/ JoinTimesOut)

----------------------------------------------------------------------------
(* StageProgress (utils/progress_tracker.py): its methods called in any     *)
(* order, on the four stages of __init__ and on a name not among them        *)

StageNames == {"asr", "clean", "translate", "tts", "extra"}

\* the values passed as progress to update_stage
ProgressValues == {0, 40}

\* self.stages[stage_name]['progress'] = progress
UpdateProgress(entry, progress) == [entry EXCEPT !.progress = progress]

InitProgress ==
    /\ CoreIdle("progress")
    /\ NoUtil

\* start_stage: the entry is created if missing, then set running at 0
StartStage(n) ==
    /\ stages' = [m \in DOMAIN stages \cup {n} |->
                     IF m = n THEN [progress |-> 0, status |-> "running"]
                     ELSE stages[m]]
    /\ UNCHANGED <<coreVars, monVars, cacheVars, asrVars>>

\* update_stage: if stage_name in self.stages, the progress is stored
UpdateStage(n, progress) ==
    /\ stages' = IF n \in DOMAIN stages
                 THEN [stages EXCEPT ![n] = UpdateProgress(@, progress)]
                 ELSE stages
    /\ UNCHANGED <<coreVars, monVars, cacheVars, asrVars>>

\* complete_stage: status 'completed', progress 100
CompleteStage(n) ==
    /\ stages' = IF n \in DOMAIN stages
                 THEN [stages EXCEPT ![n] =
                          [progress |-> 100, status |-> "completed"]]
                 ELSE stages
    /\ UNCHANGED <<coreVars, monVars, cacheVars, asrVars>>

\* fail_stage: status 'failed', the progress kept
FailStage(n) ==
    /\ stages' = IF n \in DOMAIN stages
                 THEN [stages EXCEPT ![n].status = "failed"]
                 ELSE stages
    /\ UNCHANGED <<coreVars, monVars, cacheVars, asrVars>>

\* reset: every entry present becomes pending at 0
ResetProgress ==
    /\ stages' = [m \in DOMAIN stages |-> PendingStage]
    /\ UNCHANGED <<coreVars, monVars, cacheVars, asrVars>>

NextProgress ==
    \/ \E n \in StageNames : StartStage(n)
    \/ \E n \in StageNames, progress \in ProgressValues : UpdateStage(n, progress)
    \/ \E n \in StageNames : CompleteStage(n)
    \/ \E n \in StageNames : FailStage(n)
    \/ ResetProgress

SpecProgress == InitProgress /\ [][NextProgress]_vars

----------------------------------------------------------------------------
(* StateManager (utils/state_manager.py): cache_result called with any      *)
(* stage name, key and result; save_state writing the file or raising        *)

\* f"{stage_name}_{cache_key}"
CacheKey(stage_name, cache_key) == stage_name \o <<"_">> \o cache_key

\* get_cached_result: cache.get(key, None), the result of the entry found
GetCachedResult(c, stage_name, cache_key) ==
    IF CacheKey(stage_name, cache_key) \in DOMAIN c
    THEN c[CacheKey(stage_name, cache_key)]
    ELSE "None"

InitCache ==
    /\ CoreIdle("cache")
    /\ NoUtil

\* cache_result: the entry is stored under the key, then save_state()
\* writes the file or raises
CacheResult(stage_name, cache_key, r) ==
    /\ cache' = [key \in DOMAIN cache \cup {CacheKey(stage_name, cache_key)} |->
                    IF key = CacheKey(stage_name, cache_key) THEN r
                    ELSE cache[key]]
    /\ \E saved \in BOOLEAN :
          state_file' = IF saved THEN cache' ELSE state_file
    /\ cached' = [cached EXCEPT ![<<stage_name, cache_key>>] = r]
    /\ UNCHANGED <<coreVars, monVars, stages, asrVars>>

NextCache ==
    \E stage_name \in CacheStages, cache_key \in CacheKeys,
       r \in CacheResults : CacheResult(stage_name, cache_key, r)

SpecCache == InitCache /\ [][NextCache]_vars

----------------------------------------------------------------------------
(* run_asr (modules/asr.py) from its wait for the 'Show transcribed text'    *)
(* button on: the wait loop, the popup path and the latest-file fallback     *)

\* a file or folder: its modification time and, for a .txt file, its text
OldTxt == [mtime |-> 1, text |-> <<"a">>]

NewTxt == [mtime |-> 3, text |-> <<" ", "T", "\n">>]

\* ASR_OUTPUT_DIR as the fallback can find it: folders in glob order, each
\* with its .txt files in glob order
AsrOutputDirs ==
    { <<>>,
      << [mtime |-> 2, files |-> <<OldTxt>>] >>,
      << [mtime |-> 2, files |-> <<OldTxt, NewTxt>>],
         [mtime |-> 1, files |-> << [mtime |-> 4, text |-> <<"b">>] >>] >>,
      << [mtime |-> 1, files |-> <<NewTxt>>],
         [mtime |-> 2, files |-> <<NewTxt, OldTxt>>] >>,
      << [mtime |-> 1, files |-> <<OldTxt>>],
         [mtime |-> 2, files |-> <<>>] >> }

\* what the popup's copy button leaves for pyperclip.paste()
PopupTexts == { <<>>, <<"T", " ">>, <<"a", "b">> }

\* min(entries, key=st_mtime): the first entry with the smallest time
Oldest(entries) ==
    entries[CHOOSE k \in 1..Len(entries) :
               /\ \A j \in 1..Len(entries) : entries[k].mtime <= entries[j].mtime
               /\ \A j \in 1..(k - 1) : entries[j].mtime # entries[k].mtime]

\* max(entries, key=lambda x: x.stat().st_mtime): the first entry with the
\* largest modification time
Latest(entries) ==
    entries[CHOOSE k \in 1..Len(entries) :
               /\ \A j \in 1..Len(entries) : entries[j].mtime <= entries[k].mtime
               /\ \A j \in 1..(k - 1) : entries[j].mtime # entries[k].mtime]

InitAsr ==
    /\ CoreIdle("asr")
    /\ NoUtil

\* one iteration of the wait loop: show_btn.exists() is true and the loop
\* breaks, or it is false (or raises) and the iteration sleeps 2 s; the
\* loop ends with the last iteration
WaitPoll ==
    /\ asr_pc = "waiting"
    /\ poll_i < MaxPolls
    /\ poll_i' = poll_i + 1
    /\ \E exists \in BOOLEAN :
          IF exists
          THEN /\ show_found' = TRUE
               /\ asr_pc' = "decide"
               /\ UNCHANGED asr_waited
          ELSE /\ asr_waited' = asr_waited + PollSleep
               /\ asr_pc' = IF poll_i' < MaxPolls THEN "waiting" ELSE "decide"
               /\ UNCHANGED show_found
    /\ UNCHANGED <<asr_clip, asr_dir, asr_source, asr_text>>
    /\ UNCHANGED <<coreVars, monVars, stages, cacheVars>>

\* if show_btn and show_btn.exists(): the button, once shown, stays; it can
\* have appeared since the last poll
AfterWait ==
    /\ asr_pc = "decide"
    /\ \E exists \in BOOLEAN :
          /\ show_found' = (show_found \/ exists)
          /\ asr_pc' = IF show_found' THEN "popup" ELSE "fallback"
    /\ UNCHANGED <<poll_i, asr_waited, asr_clip, asr_dir, asr_source, asr_text>>
    /\ UNCHANGED <<coreVars, monVars, stages, cacheVars>>

\* the popup path: a step before the copy raises and run_asr raises; or the
\* copy step raises and text = ""; or text = pyperclip.paste().strip()
PopupCopy ==
    /\ asr_pc = "popup"
    /\ \E opened \in BOOLEAN, copied \in BOOLEAN, content \in PopupTexts :
          IF ~opened
          THEN /\ asr_pc' = "raised"
               /\ UNCHANGED <<asr_clip, asr_source, asr_text>>
          ELSE /\ asr_pc' = "done"
               /\ asr_source' = "popup"
               /\ asr_clip' = IF copied THEN content ELSE None
               /\ asr_text' = IF copied THEN Strip(content) ELSE <<>>
    /\ UNCHANGED <<poll_i, asr_waited, show_found, asr_dir>>
    /\ UNCHANGED <<coreVars, monVars, stages, cacheVars>>

\* the fallback: the latest .txt file of the latest folder; max() of an
\* empty sequence raises ValueError and run_asr raises
FallbackLatestFile ==
    /\ asr_pc = "fallback"
    /\ \E dir \in AsrOutputDirs :
          /\ asr_dir' = dir
          /\ IF dir = <<>> \/ Latest(dir).files = <<>>
             THEN /\ asr_pc' = "raised"
                  /\ UNCHANGED <<asr_source, asr_text>>
             ELSE /\ asr_pc' = "done"
                  /\ asr_source' = "file"
                  /\ asr_text' = Strip(Latest(Latest(dir).files).text)
    /\ UNCHANGED <<poll_i, asr_waited, show_found, asr_clip>>
    /\ UNCHANGED <<coreVars, monVars, stages, cacheVars>>

NextAsr == WaitPoll \/ AfterWait \/ PopupCopy \/ FallbackLatestFile

SpecAsr == InitAsr /\ [][NextAsr]_vars

----------------------------------------------------------------------------
(* Claims *)

\* a reply was examined by the step: the step is an iteration of the loop
InLoopBody == pc = "loop" /\ LoopRuns(now, start, timeout)

\* C1 (as claimed): the run of the response monitor has ended, with its result
\* returned, no later than RESPONSE_TIMEOUT seconds after the prompt was
\* submitted, whatever the polls yield.
C1_ReturnsWithinResponseTimeout ==
    pc \in {"monitor", "loop"} => now - sent_at <= RESPONSE_TIMEOUT

\* C2: a run that ends by the deadline returns a longest candidate among the
\* non-empty candidates polled in the run, and the empty string when no poll
\* yielded one.
C2_TimedOutReturnsLongestSeen ==
    outcome = "TimedOut" =>
        IF observed = {} THEN best_response = <<>>
        ELSE /\ best_response \in observed
             /\ \A c \in observed : Len(c) <= Len(best_response)

C2_Witness ==
    /\ outcome = "TimedOut"
    /\ best_response = Hello
    /\ current_reply = Hi

\* C3 (as claimed): an accepted run returns the candidate of the accepting poll.
C3_AcceptedReturnsCandidate ==
    outcome = "Stabilized" => best_response = current_reply

\* C3 (amended): an accepted run returns best_seen, a longest candidate among
\* those polled up to and including the accepting poll; that is the accepting
\* poll's candidate whenever every other candidate polled is strictly shorter.
C3_AcceptedReturnsBestSeen ==
    outcome = "Stabilized" =>
        /\ best_response \in observed
        /\ \A c \in observed : Len(c) <= Len(best_response)
        /\ (\A c \in observed \ {current_reply} : Len(c) < Len(current_reply))
              => best_response = current_reply

C3_Witness ==
    /\ outcome = "Stabilized"
    /\ current_reply = Hi
    /\ best_response = Hello

\* C4: in a run the length of best_seen never decreases from one poll to the
\* next, and best_seen changes only to the polled candidate when that is
\* strictly longer.
C4_BestSeenGrowsOnly ==
    [][ pc = "loop" =>
          /\ Len(best_seen') >= Len(best_seen)
          /\ best_seen' # best_seen =>
                /\ best_seen' = current_reply'
                /\ Len(best_seen') > Len(best_seen) ]_vars

C4_Witness ==
    /\ pc = "loop"
    /\ best_seen = Ab
    /\ current_reply = Hi
    /\ Hello \notin observed

\* C5: a run accepted with stable_count at or above the threshold is accepted
\* at least MIN_STREAM_TIME seconds after the prompt was submitted.
C5_StableAcceptAfterMinStreamTime ==
    (outcome = "Stabilized" /\ stable_count >= StableThreshold)
        => now - sent_at >= MIN_STREAM_TIME

C5_Witness ==
    /\ outcome = "Stabilized"
    /\ stable_count >= StableThreshold
    /\ now - last_update_time <= StaleDuration

\* C6 (as claimed): on a surface showing an empty reply and then "ab" at every
\* poll, the run has accepted and returned "ab" once "ab" was polled three
\* times.
C6_AcceptsAtThirdObservation ==
    (script = EmptyThenAb /\ script_pos >= 4)
        => (outcome = "Stabilized" /\ best_response = Ab)

\* C6 (amended): on that surface, with the stale duration not reached, the run
\* is not accepted at the first three polls of "ab"; it is accepted at the
\* fourth (the third unchanged one) and returns "ab".
C6_AcceptsAtFourthObservation ==
    script = EmptyThenAb =>
        /\ (script_pos \in 1..4 /\ poll_time - last_update_time <= StaleDuration)
              => outcome = Running
        /\ script_pos >= 5 =>
              /\ script_pos = 5
              /\ outcome = "Stabilized"
              /\ best_response = Ab

C6_Witness ==
    /\ script = EmptyThenAb
    /\ script_pos = 5
    /\ outcome = "Stabilized"
    /\ poll_time - last_update_time <= StaleDuration

\* C7 (as claimed): an iteration entered with a candidate recorded and more
\* than the stale duration since the last digest change ends the run
\* accepted, whatever it polls.
C7_StaleAlwaysAccepts ==
    [][ (InLoopBody /\ last_digest # None
           /\ now - last_update_time > StaleDuration)
          => outcome' = "Stabilized" ]_vars

\* C7 (amended): such an iteration ends the run accepted exactly when its poll
\* yields a non-empty candidate with the digest recorded last; an empty or a
\* changed candidate is not accepted at that iteration.
C7_StaleAcceptsUnchangedReply ==
    [][ (InLoopBody /\ last_digest # None
           /\ now - last_update_time > StaleDuration)
          => (outcome' = "Stabilized"
                <=> (current_reply' # <<>>
                       /\ Digest(current_reply') = last_digest)) ]_vars

C7_Witness ==
    /\ outcome = "Stabilized"
    /\ stable_count < StableThreshold
    /\ poll_time - last_update_time > StaleDuration

\* C8: an iteration whose candidate is empty leaves stable_count, last_digest,
\* last_update_time and best_seen as they were, does not end the run, and
\* goes back to the loop test.
C8_EmptyPollChangesNothing ==
    [][ (InLoopBody /\ current_reply' = <<>>)
          => /\ UNCHANGED <<stable_count, last_digest, last_update_time,
                             best_seen>>
             /\ outcome' = Running
             /\ pc' = "loop"
             /\ now' >= now + EmptyPollDelay ]_vars

C8_Witness ==
    /\ pc = "loop"
    /\ poll_time > 0
    /\ current_reply = <<>>
    /\ stable_count > 0

OccursAt(raw, sent, i) ==
    /\ i >= 0
    /\ i + Len(sent) <= Len(raw)
    /\ \A k \in 1..Len(sent) : raw[i + k] = sent[k]

\* C10: for a non-empty sent blob that occurs in the raw text, the reply is the
\* trimmed, noise-filtered text after the last occurrence; when it does not
\* occur, the reply is the noise-filtered whole raw text.
C10_ReplyFollowsLastOccurrence ==
    (extracted # None /\ sent_blob # <<>>) =>
        LET places == { i \in 0..Len(raw_text) : OccursAt(raw_text, sent_blob, i) }
        IN  IF places = {} THEN extracted = NoiseFilter(raw_text)
            ELSE LET last == CHOOSE i \in places : \A j \in places : j <= i
                 IN  extracted = NoiseFilter(Strip(
                        SubSeq(raw_text, last + Len(sent_blob) + 1, Len(raw_text))))

C10_Witness ==
    /\ raw_text = <<"a", "b", "a", "b">>
    /\ sent_blob = <<"a">>
    /\ extracted = <<"b">>

\* C11 (as claimed): with an empty sent blob the reply is the raw text with
\* only noise filtering applied, so it is non-empty whenever the raw text has
\* a line that is not noise.
C11_EmptyBlobPassesThrough ==
    (extracted # None /\ sent_blob = <<>>) => extracted = NoiseFilter(raw_text)

\* C12: for a non-empty sent blob that does not occur in the reply, extracting
\* again from the reply with the same blob gives the reply back.
C12_ExtractIdempotent ==
    (extracted_twice # None /\ sent_blob # <<>>
       /\ \A i \in 0..Len(extracted) : ~OccursAt(extracted, sent_blob, i))
        => extracted_twice = extracted

C12_Witness ==
    /\ raw_text = <<" ", "b", "\n", "Copy">>
    /\ sent_blob = <<"a">>
    /\ extracted = <<"b">>
    /\ extracted_twice = extracted

\* the noise vocabulary C13 names
ClaimedNoise == { <<"copy">>, <<"regenerate">>, <<"send">>,
                  <<"stop", " ", "generating">>, <<"share">>, <<"report">> }

\* a line of the "press ... enter" form
IsPressEnter(line) ==
    /\ Len(line) >= 2
    /\ line[1] = "press"
    /\ line[Len(line)] = "enter"

\* C13 (as claimed): no line of the reply, trimmed and case-folded, is an entry
\* of the named noise vocabulary or of the "press ... enter" form.
C13_NoClaimedNoiseLine ==
    extracted # None =>
        \A i \in 1..Len(SplitLines(extracted)) :
            LET line == Lower(Strip(SplitLines(extracted)[i]))
            IN  line \notin ClaimedNoise /\ ~IsPressEnter(line)

\* C14: for a Session whose start() launched the process, once send_and_get
\* has been left (by a return after acceptance, a return after the deadline or
\* an exception) the Session holds no process handle and terminate() has been
\* called on the process exactly once.
C14_EveryExitClosesOnce ==
    (launch = "Launched" /\ pc \in {"exited", "stage_done", "stage_raised"})
        => (handle = NoProcess /\ terminate_calls = 1)

C14_Witness ==
    /\ pc = "exited"
    /\ capture_fault = "click"
    /\ raised = "FailSafeException"
    /\ stop_calls = 2
    /\ terminate_calls = 1
    /\ handle = NoProcess

\* C15 (as claimed): when the try body of send_and_get raises, stop() has been
\* called exactly once when send_and_get is left, and the exception that
\* leaves it is the one raised.
C15_StopOnceBeforePropagation ==
    (pc = "exited" /\ original # NoError)
        => (stop_calls = 1 /\ raised = original)

\* C16: when Popen raises in start(), that exception leaves start() and the
\* stage function, the Session holds no process handle, no terminate() or
\* kill() is ever called, and neither send_and_get nor stop() is called.
C16_FailedLaunchLeavesNoHandle ==
    launch \notin {"NotTried", "Launched"} =>
        /\ pc = "stage_raised"
        /\ raised = launch
        /\ handle = NoProcess
        /\ terminate_calls = 0
        /\ kill_calls = 0
        /\ stop_calls = 0
        /\ composed_prompt = <<>>

C16_Witness ==
    /\ launch = "FileNotFoundError"
    /\ pc = "stage_raised"
    /\ raised = "FileNotFoundError"

\* C17 (as claimed): whatever fails inside stop(), send_and_get is left with
\* the value of the monitor or with the exception of its try body, and the
\* Session holds no process handle.
C17_StopFailuresSwallowed ==
    pc = "exited" =>
        /\ handle = NoProcess
        /\ raised = original
        /\ original = NoError => result = best_response

\* C18 (as claimed): an iteration in which a capture step raises (the click,
\* the clipboard read or the fallback) is an empty poll: no exception leaves
\* the monitor and the loop goes on.
C18_CaptureFailureIsEmptyPoll ==
    [][ (InLoopBody /\ capture_fault' # "None")
          => /\ pc' = "loop"
             /\ raised' = NoError
             /\ current_reply' = <<>> ]_vars

\* C19 (as claimed): an iteration whose copy-button click copies nothing, and
\* whose clipboard read returns, goes through the select-all + copy fallback.
C19_FallbackWhenClickCopiesNothing ==
    [][ (InLoopBody /\ click_copied' = "Nothing" /\ capture_fault' # "paste")
          => fallback_ran' ]_vars

\* C20 (as claimed): at no time are two Sessions Active, and no Session is
\* Active while the ASR automation runs, run_full_pipeline being invoked again
\* while an earlier invocation is still running included.
C20_OneSessionAndNotDuringAsr ==
    \A i, j \in Invocations :
        /\ (i # j /\ SessionActive(i)) => ~SessionActive(j)
        /\ SessionActive(i) => ~AsrRunning(j)

\* C21: in one send_and_get the message is composed once and does not change
\* afterwards; the text on the clipboard when it is submitted is that message,
\* and every reply extraction of the run is anchored on that same message.
C21_OutboundMessageFixed ==
    /\ [](pc = "monitor" => clipboard = composed_prompt)
    /\ [][ (pc \in {"monitor", "loop"})
             => (composed_prompt' = composed_prompt) ]_vars
    /\ [][ InLoopBody
             => (current_reply' = ExtractReply(page_text', composed_prompt)) ]_vars

C21_Witness ==
    /\ pc = "loop"
    /\ request = EmptyPromptRequest
    /\ clipboard = Strip(composed_prompt)
    /\ composed_prompt # Strip(composed_prompt)
    /\ current_reply = <<"Input:", "\n", "T">>


\* ---------------------------------------------------------------------
\* C22
\* ---------------------------------------------------------------------

IsPrefix(a, b) == Len(a) <= Len(b) /\ a = SubSeq(b, 1, Len(a))

\* translate_text for every target language, in list order, with the
\* cleaned text as input
AllLanguageCalls(i) ==
    [k \in 1..Len(req[i].target_langs) |->
        <<req[i].target_langs[k], cleaned_text[i]>>]

PastTranslation(i) == at[i] \in {"tts_stage", "finish", "done"}

\* C22 as stated: when the clean stage returned its text t at the deadline
\* of the monitor and translation is enabled, run_full_pipeline reaches the
\* TTS stage only after translate_text ran for every target language with
\* input t
C22_Original ==
    \A i \in Invocations :
        (/\ clean_outcome[i] = "TimedOut"
         /\ req[i].enable_translate
         /\ PastTranslation(i))
            => translate_calls[i] = AllLanguageCalls(i)

\* C22, amended: the return of the clean stage at the deadline moves
\* run_full_pipeline to the translate stage and never raises; from there,
\* if translation is enabled and t is not blank, translate_text is called
\* for the target languages in list order with input t, and the TTS stage
\* is reached only after all of them; if t is blank no translate_text call
\* is made and the TTS stage speaks t under the key 'original'
C22_TimeoutProceeds ==
    /\ [][ \A i \in Invocations :
              (clean_outcome[i] # "TimedOut" /\ clean_outcome'[i] = "TimedOut")
                  => (at'[i] = "translate_stage") ]_vars
    /\ [](\A i \in Invocations :
              clean_outcome[i] = "TimedOut" =>
                 IF req[i].enable_translate /\ Strip(cleaned_text[i]) # <<>>
                 THEN /\ IsPrefix(translate_calls[i], AllLanguageCalls(i))
                      /\ PastTranslation(i)
                            => translate_calls[i] = AllLanguageCalls(i)
                 ELSE /\ translate_calls[i] = <<>>
                      /\ (at[i] \in {"finish", "done"} /\ req[i].enable_tts)
                            => tts_outputs[i] =
                                  << <<"original", cleaned_text[i]>> >>)

C22_Witness ==
    \E i \in Invocations :
        /\ clean_outcome[i] = "TimedOut"
        /\ cleaned_text[i] = <<"T">>
        /\ at[i] = "finish"
        /\ Len(translate_calls[i]) = 2
        /\ Len(tts_outputs[i]) = 2


\* ---------------------------------------------------------------------
\* C23
\* ---------------------------------------------------------------------

\* C23: a call of clean_text_gui or translate_text calls the methods of its
\* one engine in the order start(), send_and_get, stop(), each at most once;
\* at most one message is submitted; when the call returns, all three were
\* called, one message was submitted, and the value returned is the reply
\* send_and_get returned together with the seconds elapsed since start_time
C23_OneSessionUsedOnce ==
    /\ IsPrefix(calls, <<"start", "send_and_get", "stop">>)
    /\ sends <= 1
    /\ pc = "stage_done" =>
          /\ calls = <<"start", "send_and_get", "stop">>
          /\ sends = 1
          /\ result = best_response
          /\ stage_return = <<result, now - start_time>>

C23_Witness ==
    /\ pc = "stage_done"
    /\ outcome = "Stabilized"
    /\ stage_return[1] = <<"a", "b">>
    /\ stage_return[2] > PAGE_READY_DELAY


\* ---------------------------------------------------------------------
\* C24, C25
\* ---------------------------------------------------------------------

\* C24: on every poll with a non-empty candidate, stable_count grows by
\* exactly one if the candidate equals the previous non-empty candidate,
\* and otherwise becomes zero with last_update_time set to the time of the
\* poll; stable_count is the number of non-empty polls in a row identical to
\* the latest one, minus one
C24_StableCountTracksIdenticalPolls ==
    /\ [][ (InLoopBody /\ current_reply' # <<>>) =>
              IF current_reply' = previous_candidate
              THEN stable_count' = stable_count + 1
              ELSE stable_count' = 0 /\ last_update_time' = poll_time' ]_vars
    /\ [](previous_candidate # None => stable_count = identical_polls - 1)

C24_Witness ==
    /\ pc = "loop"
    /\ stable_count = 2
    /\ identical_polls = 3
    /\ previous_candidate = Hi
    /\ Hello \in observed

\* C25: the monitor accepts only at a poll whose non-empty candidate equals
\* the previous non-empty candidate; never at the first non-empty
\* observation and never at a poll where the content has just changed
C25_AcceptsOnlyRepeatedCandidate ==
    [][ (InLoopBody /\ outcome' = "Stabilized") =>
           /\ current_reply' # <<>>
           /\ previous_candidate # None
           /\ current_reply' = previous_candidate ]_vars

C25_Witness ==
    /\ outcome = "Stabilized"
    /\ stable_count < StableThreshold
    /\ identical_polls >= 2
    /\ current_reply = previous_candidate


\* ---------------------------------------------------------------------
\* C26
\* ---------------------------------------------------------------------

\* the reply region: everything after the last occurrence of a non-empty
\* sent blob found in the raw text, otherwise the entire raw text
ClaimedReplyRegion(raw, blob) ==
    IF blob # <<>> /\ RFind(raw, blob) # -1
    THEN SubSeq(raw, RFind(raw, blob) + Len(blob) + 1, Len(raw))
    ELSE raw

Trimmed(lines) == [k \in 1..Len(lines) |-> Strip(lines[k])]

Survives(line) == line # <<>> /\ Lower(line) \notin noise

\* C26 (as claimed): for all inputs, every line of the extracted reply is
\* non-empty, trimmed and not a noise entry, and the extracted reply is the
\* surviving lines of the reply region, in their order, joined by single
\* newlines (the empty string when none survives)
C26_OutputIsSurvivingLines ==
    extracted # None =>
        /\ \A k \in 1..Len(SplitLines(extracted)) :
              LET line == SplitLines(extracted)[k]
              IN  line = Strip(line) /\ Survives(line)
        /\ extracted =
              Join(SelectSeq(Trimmed(SplitLines(
                      ClaimedReplyRegion(raw_text, sent_blob))), Survives))


\* ---------------------------------------------------------------------
\* C27
\* ---------------------------------------------------------------------

LastCall == IF calls = <<>> THEN "none" ELSE calls[Len(calls)]

StopStep == stop_calls' = stop_calls + 1

\* a stop() that touches no process and changes nothing of the engine
StopDoesNothing ==
    /\ handle = NoProcess
    /\ handle' = NoProcess
    /\ terminate_calls' = terminate_calls
    /\ kill_calls' = kill_calls
    /\ now' = now
    /\ raised' = NoError

\* C27: after any sequence of start() and stop() calls, every stop() leaves
\* the engine without a handle; a stop() called right after a stop() makes no
\* terminate, wait or kill call and leaves the engine as it was, and so does
\* a stop() on an engine start() was never called on
C27_StopIdempotent ==
    /\ [](LastCall = "stop" => handle = NoProcess)
    /\ [][ (StopStep /\ LastCall = "stop") => StopDoesNothing ]_vars
    /\ [][ (StopStep /\ \A k \in 1..Len(calls) : calls[k] # "start")
              => StopDoesNothing ]_vars

C27_Witness ==
    /\ Len(calls) >= 3
    /\ calls[Len(calls)] = "stop"
    /\ calls[Len(calls) - 1] = "stop"
    /\ calls[Len(calls) - 2] = "start"
    /\ launch = "Launched"
    /\ kill_calls = 1
    /\ terminate_calls = 1
    /\ stop_calls = 2


\* ---------------------------------------------------------------------
\* C28
\* ---------------------------------------------------------------------

\* C28: in every send_and_get the steps happen in the order copy to the
\* clipboard, paste, confirm key, warm-up wait, first capture; a capture
\* happens only after the message was submitted and the waits after the
\* submission have passed
C28_SendThenWarmupThenCapture ==
    /\ IsPrefix(events, <<"copy", "paste", "enter", "warmup", "capture">>)
    /\ "capture" \in Range(events) =>
          /\ sends = 1
          /\ now >= sent_at + PostSendDelay + WarmupDelay
          /\ capture_fault = "None"
                => poll_time >= sent_at + PostSendDelay + WarmupDelay

C28_Witness ==
    /\ events = <<"copy", "paste", "enter", "warmup", "capture">>
    /\ poll_time = sent_at + PostSendDelay + WarmupDelay
    /\ script_pos = 1
    /\ page_text # <<>>


\* ---------------------------------------------------------------------
\* C29
\* ---------------------------------------------------------------------

Keys(pairs) == [k \in 1..Len(pairs) |-> pairs[k][1]]

\* C29: within an invocation translate_text is called for the target
\* languages in list order, at most once each and each call only after the
\* previous one returned; with translation enabled and a non-blank cleaned
\* text the TTS stage is reached only after one call per target language; the
\* TTS stage, when it has run, has one output per translated language in the
\* same order, or the single output 'original' of the cleaned text when
\* nothing was translated
C29_OneTranslationPerLanguageThenTts ==
    \A i \in Invocations :
        /\ IsPrefix(translate_calls[i], AllLanguageCalls(i))
        /\ Len(translations[i]) <= Len(translate_calls[i])
        /\ Len(translate_calls[i]) <= Len(translations[i]) + 1
        /\ at[i] \notin {"translate_session", "raised"}
              => Len(translate_calls[i]) = Len(translations[i])
        /\ Keys(translations[i]) =
              SubSeq(req[i].target_langs, 1, Len(translations[i]))
        /\ (StageEnabled(req[i].enable_translate, cleaned_text[i])
              /\ PastTranslation(i))
              => translate_calls[i] = AllLanguageCalls(i)
        /\ (at[i] \in {"finish", "done"} /\ req[i].enable_tts)
              => IF translations[i] # <<>>
                 THEN Keys(tts_outputs[i]) = Keys(translations[i])
                 ELSE tts_outputs[i] = << <<"original", cleaned_text[i]>> >>

C29_Witness ==
    \E i \in Invocations :
        /\ at[i] = "done"
        /\ clean_outcome[i] = "Stabilized"
        /\ Keys(translations[i]) = <<"Hindi", "Kannada">>
        /\ Keys(tts_outputs[i]) = <<"Hindi", "Kannada">>


\* ---------------------------------------------------------------------
\* C30
\* ---------------------------------------------------------------------

InProgress(i) == at[i] \notin {"idle", "done", "raised"}

\* C30 (as claimed): is_running is true exactly while an invocation of
\* run_full_pipeline is in progress; once the invocations have ended, by
\* returning or by an exception of a stage, it is false
C30_RunningExactlyWhileInProgress ==
    is_running <=> \E i \in Invocations : InProgress(i)


\* ---------------------------------------------------------------------
\* C31, C32, C33
\* ---------------------------------------------------------------------

AliveThreads == { t \in MonitorThreads : Alive(t) }

\* C31 (as claimed): once start_monitoring() has returned, also after a
\* stop_monitoring() whose join timed out on a sleeping loop, the stop event
\* is clear and the thread of the monitor is alive
C31_RestartLeavesLoopRunning ==
    (last_call = "start" /\ caller = "idle")
        => (~stop_event /\ Alive(monitor_thread))

\* C32: at most one monitor thread is alive at any time, and a thread is
\* created only when none is alive: start_monitoring() with a live monitor
\* thread starts no second one
C32_AtMostOneMonitorThread ==
    /\ [](Cardinality(AliveThreads) <= 1)
    /\ [][ (\E t \in MonitorThreads :
               thread_pc[t] = "unborn" /\ thread_pc'[t] # "unborn")
              => (AliveThreads = {}) ]_vars
    /\ [][ (StartMonitoring /\ Alive(monitor_thread))
              => UNCHANGED <<thread_pc, monitor_thread, stop_event>> ]_vars

C32_Witness ==
    /\ last_call = "start"
    /\ thread_pc[1] = "dead"
    /\ thread_pc[2] = "sleep"
    /\ monitor_thread = 2
    /\ ~stop_event

\* C33: once the stop event is set the loop of every thread ends; a thread
\* enters update_stats only from a loop test that found the event clear, and
\* a loop test that finds it set ends the thread
C33_StopEndsLoop ==
    /\ stop_event ~> (AliveThreads = {})
    /\ [][ \A t \in MonitorThreads :
              (thread_pc[t] # "update" /\ thread_pc'[t] = "update")
                  => (thread_pc[t] = "test" /\ ~stop_event) ]_vars
    /\ [][ \A t \in MonitorThreads :
              (thread_pc[t] = "test" /\ stop_event /\ thread_pc'[t] # "test")
                  => (thread_pc'[t] = "dead") ]_vars

C33_Witness ==
    /\ last_call = "stop"
    /\ caller = "idle"
    /\ stop_event
    /\ monitor_thread = 1
    /\ thread_pc[1] = "dead"


\* ---------------------------------------------------------------------
\* C34
\* ---------------------------------------------------------------------

\* C34 (as claimed): under any sequence of start_stage, update_stage,
\* complete_stage, fail_stage and reset, every stage with status 'completed'
\* has progress 100 and every stage with status 'pending' has progress 0
C34_StatusFixesProgress ==
    \A n \in DOMAIN stages :
        /\ stages[n].status = "completed" => stages[n].progress = 100
        /\ stages[n].status = "pending" => stages[n].progress = 0


\* ---------------------------------------------------------------------
\* C35
\* ---------------------------------------------------------------------

\* C35 (as claimed): get_cached_result(s, k) returns the result last cached
\* with cache_result(s, k, r), whatever was cached since under other
\* (stage, key) pairs
C35_CachedResultKept ==
    \A stage_name \in CacheStages, cache_key \in CacheKeys :
        cached[<<stage_name, cache_key>>] # "None"
            => GetCachedResult(cache, stage_name, cache_key)
                  = cached[<<stage_name, cache_key>>]


\* ---------------------------------------------------------------------
\* C36
\* ---------------------------------------------------------------------

\* an entry no other entry was modified after
IsNewest(entry, entries) ==
    /\ entry \in Range(entries)
    /\ \A other \in Range(entries) : other.mtime <= entry.mtime

====
